---- MODULE Spec2Model ----
(***************************************************************************)
(* A model of the snowline extraction program: the SSGB data loader, the   *)
(* date-range pipeline (SnowlinePipeline.run) and the interpolation        *)
(* processor's per-date extraction (InterpolationProcessor).               *)
(*                                                                         *)
(* Units.  Dates are day numbers.  Longitudes and latitudes are integers   *)
(* counted in grid cells (one unit = one grid_resolution step).  A contour *)
(* point's fractional grid index is kept as twice its value, so that 3     *)
(* stands for the index 1.5.  An optional value (None in the source) is a  *)
(* sequence: <<>> for None, <<v>> for the value v.                         *)
(***************************************************************************)
EXTENDS Integers, Sequences, FiniteSets, TLC

\* ------------------------------------------------------------------ bounds
\* Dates of the model are 0..MaxDate; a CSV file holds at most MaxRows rows.
MaxDate == 1
MaxRows == 3
\* The CSV file of a session on the loader's API holds at most MaxLoaderRows rows.
MaxLoaderRows == 2

\* The grid of a direct call of the geometry mapper has at most MaxCells rows
\* and MaxCells columns; a contour handed to it has at most MaxContourLen points.
MaxCells == 3
MaxContourLen == 3

\* A snowlines mapping handed to the map generator has at most MaxEntries
\* entries.
MaxEntries == 2

\* A table handed to a geometry clean-up function has at most MaxFrameRows rows.
MaxFrameRows == 2

\* The floating-point numbers of the grid builder's model have a significand
\* of Precision bits (the float64 of the source has 53).
Precision == 8

\* ------------------------------------------------------------- the inputs
None == <<>>
Some(v) == <<v>>

Dates == 0..MaxDate

\* The observation sites, as <<longitude, latitude>>.  Against BoundingBoxes
\* below: three sites inside (all on an edge of the box, not collinear), one
\* outside by longitude only, one outside by latitude only.
Sites == << <<0, 0>>, <<2, 0>>, <<0, 2>>, <<3, 1>>, <<1, 3>> >>
NumSites == Len(Sites)

AllColumns == {"date", "site_id", "latitude", "longitude", "snow_present"}

\* The column sets of the CSV files of the model: a complete file, one without
\* the snow_present column, one without the date column.
CsvColumnSets == {AllColumns, AllColumns \ {"snow_present"}, AllColumns \ {"date"}}

MakeRow(d, s, b) ==
    [date |-> d, site_id |-> s, longitude |-> Sites[s][1],
     latitude |-> Sites[s][2], snow_present |-> b]

FullRows == {MakeRow(d, s, b) : d \in Dates, s \in 1..NumSites, b \in BOOLEAN}

RowRank(r) ==
    ((r.date * NumSites) + (r.site_id - 1)) * 2 + (IF r.snow_present THEN 1 ELSE 0)

\* The complete tables of at most MaxRows rows, rows in file order (the model's
\* files list their rows by date, then site; duplicates are allowed).
FullTables ==
    {t \in UNION {[1..n -> FullRows] : n \in 0..MaxRows} :
        \A i \in 1..(Len(t) - 1) : RowRank(t[i]) <= RowRank(t[i + 1])}

\* A table (a pandas DataFrame): its columns and its rows in order; a row is a
\* record over the table's columns.
Project(t, cols) ==
    [columns |-> cols, rows |-> [i \in 1..Len(t) |-> [c \in cols |-> t[i][c]]]]

CsvFiles == {Project(t, cols) : t \in FullTables, cols \in CsvColumnSets}

BoundingBoxes == {[min_lon |-> 0, max_lon |-> 2, min_lat |-> 0, max_lat |-> 2]}

\* A validated configuration: start_date <= end_date, a proper bounding box.
Configs ==
    {c \in [start_date : Dates, end_date : Dates, bounding_box : BoundingBoxes] :
        c.start_date <= c.end_date}

VARIABLES
    config,       \* the Config the pipeline and the processor were built with
    csv,          \* the content of the file at loader.data_path
    raw_data,     \* SSGBDataLoader._raw_data: None or the cached table
    data,         \* run(): the table load() returned
    gdf,          \* run(): the filtered GeoDataFrame handed to the processor
    target_date,  \* extract_snowline(): the date of the latest call
    date_obs,     \* extract_snowline(): the observations of that date
    contours,     \* extract_snowline(): the contour lines found
    steps,        \* the steps the latest extract_snowline call has run
    results,      \* run(): the dict being built, as <<date, frame>> pairs in insertion order
    returned,     \* None, or the dict run() returned to main
    current,      \* _date_range(): the generator's current date
    error,        \* None, or the exception that ended the program
    pc,           \* where the program is
    held,         \* a caller of the loader's API: None, or the table it was handed
    last_call,    \* that caller's latest call and how it ended
    mutated       \* whether that caller has changed a table it was handed

vars == <<config, csv, raw_data, data, gdf, target_date, date_obs, contours,
          steps, results, returned, current, error, pc, held, last_call, mutated>>

\* The state of a caller of the loader's API.
caller == <<held, last_call, mutated>>

\* ------------------------------------------------------------- the loader
RequiredColumns == {"date", "site_id", "latitude", "longitude"}
\* 90 and 180 degrees, in grid cells of 0.01 degree.
LatitudeLimit == 9000
LongitudeLimit == 18000

Abs(x) == IF x < 0 THEN -x ELSE x

\* validate_snow_data(df): TRUE when it returns, FALSE when it raises
\* DataValidationError.
validate_snow_data(df) ==
    /\ RequiredColumns \ df.columns = {}
    /\ ~(\E i \in 1..Len(df.rows) : Abs(df.rows[i].latitude) > LatitudeLimit)
    /\ ~(\E i \in 1..Len(df.rows) : Abs(df.rows[i].longitude) > LongitudeLimit)

\* pd.read_csv of the file.  With a date column the dates are parsed to the day
\* numbers the file's rows already carry here; without one the first read
\* raises ValueError and the file is read again unparsed.  Either way the
\* table is the file's columns and rows.
read_csv(file) == file

\* A table handed to a caller: a new object holding `t` (alias = FALSE), or
\* the loader's cached object itself (alias = TRUE).
DataFrameAlias(t) == [alias |-> TRUE, table |-> t]
DataFrameCopy(t) == [alias |-> FALSE, table |-> t]

\* The table a handle stands for, the cache being `raw`.
Deref(h, raw) == IF h.alias THEN raw[1] ELSE h.table

\* load(): the cache after the call, whether it raised, and the handle returned.
load(raw, file) ==
    LET cached == IF raw = None THEN Some(read_csv(file)) ELSE raw
    IN  IF raw = None /\ ~validate_snow_data(cached[1])
        THEN [raw_data |-> cached, raised |-> TRUE, value |-> None]
        ELSE [raw_data |-> cached, raised |-> FALSE,
              value |-> Some(DataFrameCopy(cached[1]))]

\* As filter_by_date_range, the end date excluded.
FilterByDateRangeEndExclusive(df, start_date, end_date) ==
    LET Keep(r) == r.date >= start_date /\ r.date < end_date
    IN  [columns |-> df.columns, rows |-> SelectSeq(df.rows, Keep)]

\* filter_by_date_range(start_date, end_date) on the loaded table df.
filter_by_date_range(df, start_date, end_date) ==
    LET Keep(r) == r.date >= start_date /\ r.date <= end_date
    IN  [columns |-> df.columns, rows |-> SelectSeq(df.rows, Keep)]

\* filter_by_bounding_box(bbox) on the loaded table df.
filter_by_bounding_box(df, bbox) ==
    LET Keep(r) == /\ r.longitude >= bbox.min_lon /\ r.longitude <= bbox.max_lon
                   /\ r.latitude >= bbox.min_lat /\ r.latitude <= bbox.max_lat
    IN  [columns |-> df.columns, rows |-> SelectSeq(df.rows, Keep)]

\* ----------------------------------------------------------- the pipeline
\* run(): the mask of the up-front filter, with the box's edges excluded.
RunMaskStrict(r, cfg) ==
    /\ r.date >= cfg.start_date /\ r.date <= cfg.end_date
    /\ r.longitude > cfg.bounding_box.min_lon /\ r.longitude < cfg.bounding_box.max_lon
    /\ r.latitude > cfg.bounding_box.min_lat /\ r.latitude < cfg.bounding_box.max_lat
\* run(): the mask of the up-front date-range and bounding-box filter.
RunMask(r, cfg) ==
    /\ r.date >= cfg.start_date /\ r.date <= cfg.end_date
    /\ r.longitude >= cfg.bounding_box.min_lon /\ r.longitude <= cfg.bounding_box.max_lon
    /\ r.latitude >= cfg.bounding_box.min_lat /\ r.latitude <= cfg.bounding_box.max_lat

\* Point(xy) for a row: its geometry.
Point(r) == <<r.longitude, r.latitude>>

WithGeometry(r) ==
    [c \in DOMAIN r \cup {"geometry"} |-> IF c = "geometry" THEN Point(r) ELSE r[c]]

\* run(): filtered_data turned into the GeoDataFrame gdf.
GeoDataFrame(df, cfg) ==
    LET Keep(r) == RunMask(r, cfg)
        kept == SelectSeq(df.rows, Keep)
    IN  [columns |-> df.columns \cup {"geometry"},
         rows |-> [i \in 1..Len(kept) |-> WithGeometry(kept[i])]]

\* _date_range(): the guard of the generator's while loop.
DateRangeStopsEarly(cur, cfg) == cur < cfg.end_date
DateRangeContinues(cur, cfg) == cur <= cfg.end_date

\* ---------------------------------------------------------- the processor
\* grid_resolution, in grid cells: coordinates are counted in cells.
GridResolution == 1
\* extract_snowline: the least number of observations interpolation is run on.
MinObservations == 3

\* np.arange(start, stop, step) for stop > start, step > 0: indexed from 0.
Arange(start, stop, step) ==
    LET n == ((stop - start) + step - 1) \div step
    IN  [i \in 0..(n - 1) |-> start + i * step]

\* As create_grid, with np.meshgrid(x, y, indexing='ij'): the first index runs
\* over x and the second over y.
create_grid_ij(bbox) ==
    LET x == Arange(bbox.min_lon, bbox.max_lon, GridResolution)
        y == Arange(bbox.min_lat, bbox.max_lat, GridResolution)
    IN  [x |-> [i \in DOMAIN x |-> [j \in DOMAIN y |-> x[i]]],
         y |-> [i \in DOMAIN x |-> [j \in DOMAIN y |-> y[j]]]]

\* _create_grid(): np.meshgrid(x, y), as x[row][col] and y[row][col].
create_grid(bbox) ==
    LET x == Arange(bbox.min_lon, bbox.max_lon, GridResolution)
        y == Arange(bbox.min_lat, bbox.max_lat, GridResolution)
    IN  [x |-> [row \in DOMAIN y |-> [col \in DOMAIN x |-> x[col]]],
         y |-> [row \in DOMAIN y |-> [col \in DOMAIN x |-> y[row]]]]

\* The shape of an array of create_grid: <<rows, columns>>.
Shape(a) == <<Cardinality(DOMAIN a), Cardinality(DOMAIN a[0])>>

\* np.round of the fractional index h/2: to the nearest integer, a half to the
\* even neighbour.
Round(h) ==
    IF h % 2 = 0 THEN h \div 2
    ELSE LET f == (h - 1) \div 2 IN IF f % 2 = 0 THEN f ELSE f + 1

\* An index moved to the nearest one of 0..(n - 1).
Clamp(idx, n) == IF idx < 0 THEN 0 ELSE IF idx >= n THEN n - 1 ELSE idx

\* As ContourCoords, an out-of-grid point moved to the nearest grid node
\* instead of dropped.
RECURSIVE ContourCoordsClamped(_, _, _)
ContourCoordsClamped(contour, grid_x, grid_y) ==
    IF contour = <<>> THEN <<>>
    ELSE LET c == Head(contour)
             row_idx == Clamp(Round(c[1]), Shape(grid_y)[1])
             col_idx == Clamp(Round(c[2]), Shape(grid_x)[2])
         IN  << <<grid_x[0][col_idx], grid_y[row_idx][0]>> >>
                 \o ContourCoordsClamped(Tail(contour), grid_x, grid_y)

\* As ContourCoords, a contour point read as <<col, row>>.
RECURSIVE ContourCoordsSwapped(_, _, _)
ContourCoordsSwapped(contour, grid_x, grid_y) ==
    IF contour = <<>> THEN <<>>
    ELSE LET c == Head(contour)
             row_idx == Round(c[2])
             col_idx == Round(c[1])
             rest == ContourCoordsSwapped(Tail(contour), grid_x, grid_y)
         IN  IF /\ 0 <= row_idx /\ row_idx < Shape(grid_y)[1]
                /\ 0 <= col_idx /\ col_idx < Shape(grid_x)[2]
             THEN << <<grid_x[0][col_idx], grid_y[row_idx][0]>> >> \o rest
             ELSE rest

\* _contours_to_geometry: the coordinates of one contour, out-of-grid points
\* dropped.
RECURSIVE ContourCoords(_, _, _)
ContourCoords(contour, grid_x, grid_y) ==
    IF contour = <<>> THEN <<>>
    ELSE LET c == Head(contour)
             row_idx == Round(c[1])
             col_idx == Round(c[2])
             rest == ContourCoords(Tail(contour), grid_x, grid_y)
         IN  IF /\ 0 <= row_idx /\ row_idx < Shape(grid_y)[1]
                /\ 0 <= col_idx /\ col_idx < Shape(grid_x)[2]
             THEN << <<grid_x[0][col_idx], grid_y[row_idx][0]>> >> \o rest
             ELSE rest

\* As ContourLines, keeping a contour with a single coordinate too.
RECURSIVE ContourLinesKeepsPoints(_, _, _)
ContourLinesKeepsPoints(cs, grid_x, grid_y) ==
    IF cs = <<>> THEN <<>>
    ELSE LET coords == ContourCoords(Head(cs), grid_x, grid_y)
             rest == ContourLinesKeepsPoints(Tail(cs), grid_x, grid_y)
         IN  IF Len(coords) >= 1
             THEN <<[type |-> "LineString", coords |-> coords]>> \o rest
             ELSE rest

\* _contours_to_geometry: the LineStrings of the contours with two coordinates
\* or more.
RECURSIVE ContourLines(_, _, _)
ContourLines(cs, grid_x, grid_y) ==
    IF cs = <<>> THEN <<>>
    ELSE LET coords == ContourCoords(Head(cs), grid_x, grid_y)
             rest == ContourLines(Tail(cs), grid_x, grid_y)
         IN  IF Len(coords) >= 2
             THEN <<[type |-> "LineString", coords |-> coords]>> \o rest
             ELSE rest

\* As contours_to_geometry, a single surviving line returned as the LineString
\* itself.
ContoursToGeometryUnwrapsOne(cs, bbox) ==
    IF cs = <<>> THEN None
    ELSE LET grid == create_grid(bbox)
             lines == ContourLines(cs, grid.x, grid.y)
         IN  IF lines = <<>> THEN None
             ELSE IF Len(lines) = 1 THEN Some(lines[1])
             ELSE Some([type |-> "MultiLineString", lines |-> lines])

\* _contours_to_geometry(contours): None or a MultiLineString.
contours_to_geometry(cs, bbox) ==
    IF cs = <<>> THEN None
    ELSE LET grid == create_grid(bbox)
             lines == ContourLines(cs, grid.x, grid.y)
         IN  IF lines # <<>>
             THEN Some([type |-> "MultiLineString", lines |-> lines])
             ELSE None

\* _create_empty_result(target_date, reason): a one-row frame.
create_empty_result(d, reason) ==
    [columns |-> {"date", "geometry", "observation_count", "reason"},
     rows |-> <<[date |-> d, geometry |-> None, observation_count |-> 0,
                 reason |-> reason]>>]

\* As NoDataResult, but a one-row frame with an absent geometry.
NoDataResultOneRow(d) ==
    [columns |-> {"date", "geometry", "observation_count"},
     rows |-> <<[date |-> d, geometry |-> None, observation_count |-> 0]>>]

\* extract_snowline: the frame returned for a date without observations.
NoDataResult(d) ==
    [columns |-> {"date", "geometry", "observation_count"}, rows |-> <<>>]

\* As SnowlineResult, the count left at 0 as in a labelled frame.
SnowlineResultZeroCount(d, geometry, obs) ==
    [columns |-> {"date", "geometry", "observation_count"},
     rows |-> <<[date |-> d, geometry |-> geometry, observation_count |-> 0]>>]

\* extract_snowline: the frame returned after interpolation and contouring.
SnowlineResult(d, geometry, obs) ==
    [columns |-> {"date", "geometry", "observation_count"},
     rows |-> <<[date |-> d, geometry |-> geometry, observation_count |-> Len(obs)]>>]

\* As DateObs, the observations of the earlier dates kept too.
DateObsUpTo(observations, d) ==
    LET Keep(r) == r.date <= d
    IN  SelectSeq(observations.rows, Keep)

\* extract_snowline: the observations of the target date.
DateObs(observations, d) ==
    LET Keep(r) == r.date = d
    IN  SelectSeq(observations.rows, Keep)

AllSnow(obs) == \A i \in 1..Len(obs) : obs[i].snow_present
AnySnow(obs) == \E i \in 1..Len(obs) : obs[i].snow_present

\* As Classify, with the fewer-than-3 check ahead of the uniform-state checks.
ClassifyCountFirst(obs, columns) ==
    IF Len(obs) = 0 THEN "empty"
    ELSE IF "snow_present" \notin columns THEN "KeyError"
    ELSE IF Len(obs) < MinObservations THEN "insufficient_data"
    ELSE IF AllSnow(obs) THEN "complete_snow"
    ELSE IF ~AnySnow(obs) THEN "no_snow"
    ELSE "interpolate"

\* As Classify, with the count compared to 2 instead of 3.
ClassifyThresholdTwo(obs, columns) ==
    IF Len(obs) = 0 THEN "empty"
    ELSE IF "snow_present" \notin columns THEN "KeyError"
    ELSE IF AllSnow(obs) THEN "complete_snow"
    ELSE IF ~AnySnow(obs) THEN "no_snow"
    ELSE IF Len(obs) < MinObservations - 1 THEN "insufficient_data"
    ELSE "interpolate"

\* As Classify, without the fewer-than-3 check.
ClassifyNoCountCheck(obs, columns) ==
    IF Len(obs) = 0 THEN "empty"
    ELSE IF "snow_present" \notin columns THEN "KeyError"
    ELSE IF AllSnow(obs) THEN "complete_snow"
    ELSE IF ~AnySnow(obs) THEN "no_snow"
    ELSE "interpolate"

\* As Classify, with 3 observations still too few.
ClassifyCountAtMost(obs, columns) ==
    IF Len(obs) = 0 THEN "empty"
    ELSE IF "snow_present" \notin columns THEN "KeyError"
    ELSE IF AllSnow(obs) THEN "complete_snow"
    ELSE IF ~AnySnow(obs) THEN "no_snow"
    ELSE IF Len(obs) <= MinObservations THEN "insufficient_data"
    ELSE "interpolate"

\* extract_snowline: the edge-case checks, in the source's order.  "empty" is
\* the zero-row return, "interpolate" the normal path, "KeyError" the failed
\* lookup of a snow_present column the table does not have.
Classify(obs, columns) ==
    IF Len(obs) = 0 THEN "empty"
    ELSE IF "snow_present" \notin columns THEN "KeyError"
    ELSE IF AllSnow(obs) THEN "complete_snow"
    ELSE IF ~AnySnow(obs) THEN "no_snow"
    ELSE IF Len(obs) < MinObservations THEN "insufficient_data"
    ELSE "interpolate"

Cross(a, b, c) ==
    (b[1] - a[1]) * (c[2] - a[2]) - (b[2] - a[2]) * (c[1] - a[1])

\* _interpolate_to_grid: griddata(method='linear') triangulates the points and
\* raises QhullError when they span no triangle (all on one line).
Degenerate(obs) ==
    \A i, j, k \in 1..Len(obs) :
        Cross(obs[i].geometry, obs[j].geometry, obs[k].geometry) = 0

\* _extract_contour: what find_contours may return on the smoothed grid, as
\* lists of <<row, col>> fractional indices (doubled): no contour, one line, a
\* single-point contour, two lines.
FindContoursResults ==
    { <<>>,
      << << <<1, 0>>, <<1, 2>> >> >>,
      << << <<1, 1>> >> >>,
      << << <<1, 0>>, <<1, 2>> >>, << <<0, 1>>, <<2, 1>> >> >> }

\* ------------------------------------------------------------ the actions
Inputs ==
    /\ config \in Configs
    /\ csv \in CsvFiles
    /\ raw_data = None
    /\ data = None
    /\ gdf = None
    /\ target_date = None
    /\ date_obs = <<>>
    /\ contours = <<>>
    /\ steps = <<>>
    /\ results = <<>>
    /\ returned = None
    /\ current = config.start_date
    /\ error = None
    /\ held = None
    /\ last_call = [op |-> [name |-> "none"], raised |-> "no"]
    /\ mutated = FALSE

\* main: the loader, the processor and the pipeline are built; run() is next.
Init == Inputs /\ pc = "load"

\* An exception leaves run(): its locals are gone and nothing is returned.
Raise(e) ==
    /\ error' = Some(e)
    /\ pc' = "failed"
    /\ data' = None
    /\ gdf' = None
    /\ results' = <<>>

\* results[key] = value on a dict kept as <<key, value>> pairs in insertion order.
DictSet(d, key, value) ==
    IF \E i \in 1..Len(d) : d[i][1] = key
    THEN [i \in 1..Len(d) |-> IF d[i][1] = key THEN <<key, value>> ELSE d[i]]
    ELSE Append(d, <<key, value>>)

\* run(): data = self.loader.load()
Load ==
    /\ pc = "load"
    /\ LET r == load(raw_data, csv)
       IN  /\ raw_data' = r.raw_data
           /\ IF r.raised
              THEN Raise("DataValidationError")
              ELSE /\ data' = r.value
                   /\ pc' = "filter"
                   /\ UNCHANGED <<gdf, results, error>>
    /\ UNCHANGED <<config, csv, target_date, date_obs, contours, steps, returned,
                   current, caller>>

\* run(): the up-front filter, the GeoDataFrame, and the start of the loop.  A
\* table without one of the filtered columns makes the lookup raise KeyError.
FilterData ==
    /\ pc = "filter"
    /\ LET df == Deref(data[1], raw_data)
       IN  IF {"date", "longitude", "latitude"} \ df.columns # {}
           THEN Raise("KeyError") /\ UNCHANGED current
           ELSE /\ gdf' = Some(GeoDataFrame(df, config))
                /\ results' = <<>>
                /\ current' = config.start_date
                /\ pc' = "loop"
                /\ UNCHANGED <<data, error>>
    /\ UNCHANGED <<config, csv, raw_data, target_date, date_obs, contours,
                   steps, returned, caller>>

\* run(): the next date of _date_range(), and extract_snowline up to the end of
\* its edge-case checks.
ExtractSnowline ==
    /\ pc = "loop"
    /\ DateRangeContinues(current, config)
    /\ LET obs == DateObs(gdf[1], current)
           outcome == Classify(obs, gdf[1].columns)
       IN  /\ target_date' = Some(current)
           /\ date_obs' = obs
           /\ steps' = <<"classify">>
           /\ current' = current + 1
           /\ CASE outcome = "KeyError" -> Raise("KeyError")
                [] outcome = "empty" ->
                     /\ results' = DictSet(results, current, NoDataResult(current))
                     /\ UNCHANGED <<pc, error, data, gdf>>
                [] outcome = "interpolate" ->
                     /\ pc' = "interpolate"
                     /\ UNCHANGED <<results, error, data, gdf>>
                [] OTHER ->
                     /\ results' = DictSet(results, current,
                                           create_empty_result(current, outcome))
                     /\ UNCHANGED <<pc, error, data, gdf>>
    /\ UNCHANGED <<config, csv, raw_data, contours, returned, caller>>

\* extract_snowline: grid = self._interpolate_to_grid(date_obs)
InterpolateToGrid ==
    /\ pc = "interpolate"
    /\ IF Degenerate(date_obs)
       THEN Raise("QhullError") /\ UNCHANGED steps
       ELSE /\ pc' = "contour"
            /\ steps' = Append(steps, "interpolate")
            /\ UNCHANGED <<error, data, gdf, results>>
    /\ UNCHANGED <<config, csv, raw_data, target_date, date_obs, contours, returned,
                   current, caller>>

\* As ExtractContour, the contours found on the grid as interpolated.
ExtractContourUnsmoothed ==
    /\ pc = "contour"
    /\ \E cs \in FindContoursResults : contours' = cs
    /\ steps' = Append(steps, "contour")
    /\ pc' = "geometry"
    /\ UNCHANGED <<config, csv, raw_data, data, gdf, target_date, date_obs, results,
                   returned, current, error, caller>>

\* extract_snowline: contours = self._extract_contour(grid), smoothing first.
ExtractContour ==
    /\ pc = "contour"
    /\ \E cs \in FindContoursResults : contours' = cs
    /\ steps' = steps \o <<"smooth", "contour">>
    /\ pc' = "geometry"
    /\ UNCHANGED <<config, csv, raw_data, data, gdf, target_date, date_obs, results,
                   returned, current, error, caller>>

\* extract_snowline: the geometry and the frame returned; run() stores it.
ContoursToGeometry ==
    /\ pc = "geometry"
    /\ LET geometry == contours_to_geometry(contours, config.bounding_box)
       IN  results' = DictSet(results, target_date[1],
                              SnowlineResult(target_date[1], geometry, date_obs))
    /\ steps' = Append(steps, "map")
    /\ pc' = "loop"
    /\ UNCHANGED <<config, csv, raw_data, data, gdf, target_date, date_obs, contours,
                   returned, current, error, caller>>

\* run(): return results
Return ==
    /\ pc = "loop"
    /\ ~DateRangeContinues(current, config)
    /\ returned' = Some(results)
    /\ pc' = "done"
    /\ UNCHANGED <<config, csv, raw_data, data, gdf, target_date, date_obs, contours,
                   steps, results, current, error, caller>>

Next ==
    \/ Load
    \/ FilterData
    \/ ExtractSnowline
    \/ InterpolateToGrid
    \/ ExtractContour
    \/ ContoursToGeometry
    \/ Return

Spec == Init /\ [][Next]_vars

\* ----------------------------------------- a caller of the loader's API
\* A session on one loader: load(), the two filters and pipeline runs in any
\* order, the caller changing in place the tables it was handed.
InitLoader ==
    /\ Inputs
    /\ Len(csv.rows) <= MaxLoaderRows
    /\ config.start_date = 0
    /\ config.end_date = MaxDate
    /\ pc = "idle"

\* df[mask]: a new table object holding the rows kept.
NewFrame(t) == [alias |-> FALSE, table |-> t]

\* What a loader method returns, `handle` being what its own self.load()
\* returned and df the table that handle stands for.
MethodResult(op, handle, df) ==
    CASE op.name = "load" -> handle
      [] op.name = "filter_by_date_range" ->
            NewFrame(filter_by_date_range(df, op.start_date, op.end_date))
      [] op.name = "filter_by_bounding_box" ->
            NewFrame(filter_by_bounding_box(df, op.bbox))

\* A call of a loader method that returns a table: the loader's cache, the
\* caller's table and the call's record after it.  `needs` are the columns the
\* method looks up; a missing one raises KeyError.
LoaderCall(op, needs) ==
    LET r == load(raw_data, csv)
    IN  IF r.raised
        THEN [raw_data |-> r.raw_data, held |-> held,
              last_call |-> [op |-> op, raised |-> "DataValidationError"]]
        ELSE LET df == Deref(r.value[1], r.raw_data)
             IN  IF needs \ df.columns # {}
                 THEN [raw_data |-> r.raw_data, held |-> held,
                       last_call |-> [op |-> op, raised |-> "KeyError"]]
                 ELSE [raw_data |-> r.raw_data,
                       held |-> Some(MethodResult(op, r.value[1], df)),
                       last_call |-> [op |-> op, raised |-> "no"]]

Called(c) ==
    /\ pc = "idle"
    /\ raw_data' = c.raw_data
    /\ held' = c.held
    /\ last_call' = c.last_call
    /\ UNCHANGED <<config, csv, data, gdf, target_date, date_obs, contours, steps,
                   results, returned, current, error, pc, mutated>>

\* df = loader.load()
CallLoad ==
    Called(LoaderCall([name |-> "load"], {}))

\* df = loader.filter_by_date_range(start_date, end_date)
CallFilterByDateRange ==
    \E s \in Dates, e \in Dates :
        Called(LoaderCall([name |-> "filter_by_date_range", start_date |-> s,
                           end_date |-> e], {"date"}))

\* df = loader.filter_by_bounding_box(bbox)
CallFilterByBoundingBox ==
    \E b \in BoundingBoxes :
        Called(LoaderCall([name |-> "filter_by_bounding_box", bbox |-> b],
                          {"longitude", "latitude"}))

\* df['modified'] = True
AddColumn(df) ==
    [columns |-> df.columns \cup {"modified"},
     rows |-> [i \in 1..Len(df.rows) |->
                 [c \in DOMAIN df.rows[i] \cup {"modified"} |->
                     IF c = "modified" THEN TRUE ELSE df.rows[i][c]]]]

\* df.drop(df.index[0], inplace=True)
DropFirstRow(df) ==
    [columns |-> df.columns, rows |-> IF df.rows = <<>> THEN <<>> ELSE Tail(df.rows)]

\* The caller changes, in place, the table it holds: the object changed is the
\* one its handle names.
CallerMutates ==
    /\ pc = "idle"
    /\ held # None
    /\ \E kind \in {"add_column", "drop_row"} :
        LET df == Deref(held[1], raw_data)
            changed == IF kind = "add_column" THEN AddColumn(df) ELSE DropFirstRow(df)
        IN  /\ changed # df
            /\ last_call' = [op |-> [name |-> kind], raised |-> "no"]
            /\ IF held[1].alias
               THEN raw_data' = Some(changed) /\ held' = held
               ELSE /\ held' = Some([held[1] EXCEPT !.table = changed])
                    /\ raw_data' = raw_data
    /\ mutated' = TRUE
    /\ UNCHANGED <<config, csv, data, gdf, target_date, date_obs, contours, steps,
                   results, returned, current, error, pc>>

\* results = pipeline.run() on a pipeline built over this loader, as the
\* loader sees it: run() calls load() once, filters the table it was handed
\* into new tables, and hands the loader nothing back.
CallRun ==
    /\ pc = "idle"
    /\ raw_data' = load(raw_data, csv).raw_data
    /\ last_call' = [op |-> [name |-> "run"], raised |-> "unknown"]
    /\ UNCHANGED <<config, csv, data, gdf, target_date, date_obs, contours, steps,
                   results, returned, current, error, pc, held, mutated>>

NextLoader ==
    \/ CallLoad
    \/ CallFilterByDateRange
    \/ CallFilterByBoundingBox
    \/ CallerMutates
    \/ CallRun

SpecLoader == InitLoader /\ [][NextLoader]_vars

\* ------------------------------------- the grid in floating-point numbers
\* A floating-point number is kept as a whole number of units of 1/FloatUnit
\* degree; the numbers of the model are 0.1 and more, which gives each of them
\* a full significand.
FloatUnit == 2 ^ (Precision + 3)

\* n / d rounded to the nearest integer, a tie to the even one.
RoundHalfEven(n, d) ==
    LET q == n \div d
        r == n % d
    IN  IF 2 * r < d THEN q ELSE IF 2 * r > d THEN q + 1 ELSE q + (q % 2)

\* The gap between the floating-point numbers around num / den units: the
\* least power of two s with num / den < s * 2^Precision.
RECURSIVE Spacing(_, _, _)
Spacing(num, den, s) ==
    IF num < den * s * (2 ^ Precision) THEN s ELSE Spacing(num, den, 2 * s)

\* The floating-point number nearest to num / den units (round to nearest,
\* ties to even): the result of every arithmetic operation is rounded so.
Float(num, den) ==
    LET s == Spacing(num, den, 1)
    IN  s * RoundHalfEven(num, den * s)

\* The float read from the decimal text t/10 of a configuration or argument.
Decimal(t) == Float(t * FloatUnit, 10)

FloatAdd(a, b) == Float(a + b, 1)
FloatSub(a, b) == Float(a - b, 1)
FloatMul(i, a) == Float(i * a, 1)
FloatDiv(a, b) == Float(a * FloatUnit, b)

\* ceil of a float, as an integer.
Ceil(a) == (a + FloatUnit - 1) \div FloatUnit

\* np.arange(start, stop, step) on floats: ceil((stop - start) / step) values,
\* the first start, the second start + step, the i-th start + i * delta with
\* delta the difference of the first two.
np_arange(start, stop, step) ==
    LET n == Ceil(FloatDiv(FloatSub(stop, start), step))
        second == FloatAdd(start, step)
        delta == FloatSub(second, start)
    IN  [i \in 0..(n - 1) |->
            IF i = 0 THEN start
            ELSE IF i = 1 THEN second
            ELSE FloatAdd(start, FloatMul(i, delta))]

\* _create_grid() on floats: np.meshgrid(x, y), as x[row][col] and y[row][col].
create_grid_float(bbox, grid_resolution) ==
    LET x == np_arange(bbox.min_lon, bbox.max_lon, grid_resolution)
        y == np_arange(bbox.min_lat, bbox.max_lat, grid_resolution)
    IN  [x |-> [row \in DOMAIN y |-> [col \in DOMAIN x |-> x[col]]],
         y |-> [row \in DOMAIN y |-> [col \in DOMAIN x |-> y[row]]]]

\* The bounding boxes of the grid builder: longitudes and latitudes written
\* as 1.0, 1.1, 1.2 and 1.3, the minimum below the maximum.
GridTenths == 10..13
GridBoundingBoxes ==
    {[min_lon |-> Decimal(a), max_lon |-> Decimal(b),
      min_lat |-> Decimal(c), max_lat |-> Decimal(d)] :
        a \in GridTenths, b \in GridTenths, c \in GridTenths, d \in GridTenths}

\* processor = InterpolationProcessor(bbox, grid_resolution), the resolution
\* written as 0.1, 0.2 or 0.5.
InitGrid ==
    /\ config \in {c \in [bounding_box : GridBoundingBoxes,
                           grid_resolution : {Decimal(1), Decimal(2), Decimal(5)}] :
                       /\ c.bounding_box.min_lon < c.bounding_box.max_lon
                       /\ c.bounding_box.min_lat < c.bounding_box.max_lat}
    /\ csv = Project(<<>>, AllColumns)
    /\ raw_data = None
    /\ data = None
    /\ gdf = None
    /\ target_date = None
    /\ date_obs = <<>>
    /\ contours = <<>>
    /\ steps = <<>>
    /\ results = <<>>
    /\ returned = None
    /\ current = 0
    /\ error = None
    /\ held = None
    /\ last_call = [op |-> [name |-> "none"], raised |-> "no"]
    /\ mutated = FALSE
    /\ pc = "idle"

\* grid_x, grid_y = processor._create_grid()
CallCreateGrid ==
    /\ pc = "idle"
    /\ held' = Some(create_grid_float(config.bounding_box, config.grid_resolution))
    /\ last_call' = [op |-> [name |-> "_create_grid"], raised |-> "no"]
    /\ pc' = "done"
    /\ UNCHANGED <<config, csv, raw_data, data, gdf, target_date, date_obs, contours,
                   steps, results, returned, current, error, mutated>>

NextGrid ==
    \/ CallCreateGrid

SpecGrid == InitGrid /\ [][NextGrid]_vars

\* -------------------------------------------------- the geometry clean-up
LineString(coords) == [type |-> "LineString", coords |-> coords]
MultiLineString(lines) == [type |-> "MultiLineString", lines |-> lines]

\* The geometries of the tables handed to the clean-up functions: absent, a
\* straight line of three points, a bent line, two segments that touch end to
\* start, two segments apart.
SnowlineGeometries ==
    { None,
      Some(LineString(<< <<0, 0>>, <<1, 0>>, <<2, 0>> >>)),
      Some(LineString(<< <<0, 0>>, <<1, 1>>, <<2, 0>> >>)),
      Some(MultiLineString(<< LineString(<< <<0, 0>>, <<1, 1>> >>),
                              LineString(<< <<1, 1>>, <<2, 0>> >>) >>)),
      Some(MultiLineString(<< LineString(<< <<0, 0>>, <<1, 0>> >>),
                              LineString(<< <<0, 2>>, <<1, 2>> >>) >>)) }

\* A snowline table (a GeoDataFrame): its coordinate reference system and its
\* rows of date, geometry and observation_count.
SnowlineFrames ==
    {[crs |-> crs, columns |-> {"date", "geometry", "observation_count"},
      rows |-> [i \in 1..Len(gs) |->
                   [date |-> 0, geometry |-> gs[i], observation_count |-> 3]]] :
        crs \in {"EPSG:4326", "EPSG:27700"},
        gs \in UNION {[1..n -> SnowlineGeometries] : n \in 0..MaxFrameRows}}

\* As GeoDataFrameCopy, without the copy: the function works on the caller's
\* table itself.
GeoDataFrameInPlace(t) == [alias |-> TRUE, table |-> t]
\* gdf = gdf.copy(): a new table object holding the rows and the crs of `t`.
GeoDataFrameCopy(t) == [alias |-> FALSE, table |-> t]

\* Douglas-Peucker on a line's coordinates, as far as whole coordinates show
\* it: an inner point on the straight line between its neighbours is dropped.
RECURSIVE DropCollinear(_)
DropCollinear(coords) ==
    IF Len(coords) < 3 THEN coords
    ELSE IF Cross(coords[1], coords[2], coords[3]) = 0
         THEN DropCollinear(<<coords[1]>> \o SubSeq(coords, 3, Len(coords)))
         ELSE <<coords[1]>> \o DropCollinear(Tail(coords))

\* geometry.simplify(tolerance)
Simplify(g) ==
    IF g = None THEN None
    ELSE IF g[1].type = "LineString"
         THEN Some(LineString(DropCollinear(g[1].coords)))
         ELSE Some(MultiLineString(
                  [i \in 1..Len(g[1].lines) |->
                      LineString(DropCollinear(g[1].lines[i].coords))]))

\* geometry.buffer(d).buffer(-d).boundary: the boundary of what is left of the
\* buffered line after it is shrunk again, which is shapely's to say: nothing
\* (an empty line) or a closed ring.
SmoothResults(g) ==
    IF g = None THEN {None}
    ELSE { Some(LineString(<<>>)),
           Some(LineString(<< <<0, 0>>, <<1, 0>>, <<1, 1>>, <<0, 0>> >>)) }

Reverse(seq) == [i \in 1..Len(seq) |-> seq[Len(seq) + 1 - i]]

\* linemerge of a multi-line geometry of one or two lines: two lines that
\* share an end point become one line.
LineMerge(m) ==
    IF Len(m.lines) = 1 THEN m.lines[1]
    ELSE LET a == m.lines[1].coords
             b == m.lines[2].coords
         IN  IF a[Len(a)] = b[1] THEN LineString(a \o Tail(b))
             ELSE IF b[Len(b)] = a[1] THEN LineString(b \o Tail(a))
             ELSE IF a[Len(a)] = b[Len(b)] THEN LineString(a \o Tail(Reverse(b)))
             ELSE IF a[1] = b[1] THEN LineString(Reverse(a) \o Tail(b))
             ELSE m

\* lambda g: linemerge(g) if isinstance(g, MultiLineString) else g
MergeGeometry(g) ==
    IF g # None /\ g[1].type = "MultiLineString" THEN Some(LineMerge(g[1])) ELSE g

\* The geometry columns a clean-up function may compute from table t.
NewGeometryColumns(name, t) ==
    CASE name = "simplify_snowline" ->
            {[i \in 1..Len(t.rows) |-> Simplify(t.rows[i].geometry)]}
      [] name = "smooth_snowline" ->
            {col \in [1..Len(t.rows) -> UNION {SmoothResults(g) : g \in SnowlineGeometries}] :
                \A i \in 1..Len(t.rows) : col[i] \in SmoothResults(t.rows[i].geometry)}
      [] name = "merge_line_segments" ->
            {[i \in 1..Len(t.rows) |-> MergeGeometry(t.rows[i].geometry)]}

\* gdf['geometry'] = col
SetGeometry(t, col) ==
    [t EXCEPT !.rows = [i \in 1..Len(t.rows) |-> [t.rows[i] EXCEPT !.geometry = col[i]]]]

\* A caller holds a snowline table and is about to call one clean-up function.
InitPostprocess ==
    /\ gdf \in {Some(t) : t \in SnowlineFrames}
    /\ config \in [start_date : {0}, end_date : {0}, bounding_box : BoundingBoxes]
    /\ csv = Project(<<>>, AllColumns)
    /\ raw_data = None
    /\ data = None
    /\ target_date = None
    /\ date_obs = <<>>
    /\ contours = <<>>
    /\ steps = <<>>
    /\ results = <<>>
    /\ returned = None
    /\ current = 0
    /\ error = None
    /\ held = None
    /\ last_call = [op |-> [name |-> "none"], raised |-> "no"]
    /\ mutated = FALSE
    /\ pc = "idle"

\* result = name(gdf): the function copies the table, replaces the copy's
\* geometry column and returns the copy.  The call's record keeps the table
\* as it was when handed over.
CallPostprocess(name) ==
    /\ pc = "idle"
    /\ LET work == GeoDataFrameCopy(gdf[1])
       IN  \E col \in NewGeometryColumns(name, gdf[1]) :
              LET changed == SetGeometry(work.table, col)
              IN  /\ held' = Some([work EXCEPT !.table = changed])
                  /\ gdf' = IF work.alias THEN Some(changed) ELSE gdf
    /\ last_call' = [op |-> [name |-> name, gdf |-> gdf[1]], raised |-> "no"]
    /\ pc' = "done"
    /\ UNCHANGED <<config, csv, raw_data, data, target_date, date_obs, contours,
                   steps, results, returned, current, error, mutated>>

CallSimplifySnowline == CallPostprocess("simplify_snowline")
CallSmoothSnowline == CallPostprocess("smooth_snowline")
CallMergeLineSegments == CallPostprocess("merge_line_segments")

NextPostprocess ==
    \/ CallSimplifySnowline
    \/ CallSmoothSnowline
    \/ CallMergeLineSegments

SpecPostprocess == InitPostprocess /\ [][NextPostprocess]_vars

\* ------------------------------------------------ the configuration file
\* 180 and 90 degrees: the limits of a longitude and of a latitude.
MaxLongitude == 180
MaxLatitude == 90

\* A scalar of the YAML file: a number, or a text that is not a number.
Number(n) == [number |-> TRUE, value |-> n]
Text == [number |-> FALSE, value |-> 0]

\* The longitudes and latitudes written in the files: 0, each limit, one
\* degree past each limit.
LonScalars ==
    {Number(v) : v \in {-MaxLongitude - 1, -MaxLongitude, 0, MaxLongitude,
                         MaxLongitude + 1}}
LatScalars ==
    {Number(v) : v \in {-MaxLatitude - 1, -MaxLatitude, 0, MaxLatitude,
                         MaxLatitude + 1}}

\* The date strings written in the files: the ISO text of a day, or a text
\* that is not a date.
DateTexts == {[iso |-> TRUE, day |-> d] : d \in Dates} \cup {[iso |-> FALSE, day |-> 0]}

\* What yaml.safe_load returns: None for an empty file, or the mapping read.
\* `missing` names a required field the file lacks; snowline_width is 1, 0 or
\* a text.
RawConfigs ==
    {None} \cup
    {Some(y) : y \in [missing : {"none", "region", "time.start_date"},
                       min_lon : LonScalars, max_lon : LonScalars,
                       min_lat : LatScalars, max_lat : LatScalars,
                       start_date : DateTexts, end_date : DateTexts,
                       snowline_width : {Number(1), Number(0), Text}]}

\* _validate_bounding_box(bbox): TRUE when it returns, FALSE when it raises
\* ConfigurationError.
validate_bounding_box(bbox) ==
    /\ ~(bbox.min_lon >= bbox.max_lon)
    /\ ~(bbox.min_lat >= bbox.max_lat)
    /\ (-MaxLongitude <= bbox.min_lon /\ bbox.min_lon <= MaxLongitude)
    /\ (-MaxLongitude <= bbox.max_lon /\ bbox.max_lon <= MaxLongitude)
    /\ (-MaxLatitude <= bbox.min_lat /\ bbox.min_lat <= MaxLatitude)
    /\ (-MaxLatitude <= bbox.max_lat /\ bbox.max_lat <= MaxLatitude)

\* _validate_dates(time_config): TRUE when it returns.
validate_dates(time_config) == ~(time_config.start_date > time_config.end_date)

\* _validate_style(style): TRUE when it returns (the colours are the defaults).
validate_style(style) == ~(style.snowline_width <= 0)

\* load_config(config_path): how the call ends and the Config it returns.
\* The sections are parsed in the source's order (region, time, output), then
\* validated; float() of a text raises ValueError.
load_config(raw) ==
    LET Raised(e) == [raised |-> e, value |-> None]
    IN  IF raw = None THEN Raised("ConfigurationError")
        ELSE LET y == raw[1]
                 bbox == [min_lon |-> y.min_lon.value, max_lon |-> y.max_lon.value,
                          min_lat |-> y.min_lat.value, max_lat |-> y.max_lat.value]
                 time_config == [start_date |-> y.start_date.day,
                                 end_date |-> y.end_date.day]
                 style == [snowline_width |-> y.snowline_width.value]
             IN  IF y.missing = "region" THEN Raised("ConfigurationError")
                 ELSE IF \E f \in {"min_lon", "max_lon", "min_lat", "max_lat"} :
                            ~y[f].number
                      THEN Raised("ValueError")
                 ELSE IF y.missing = "time.start_date" THEN Raised("ConfigurationError")
                 ELSE IF ~y.start_date.iso \/ ~y.end_date.iso
                      THEN Raised("ConfigurationError")
                 ELSE IF ~y.snowline_width.number THEN Raised("ValueError")
                 ELSE IF ~validate_bounding_box(bbox) THEN Raised("ConfigurationError")
                 ELSE IF ~validate_dates(time_config) THEN Raised("ConfigurationError")
                 ELSE IF ~validate_style(style) THEN Raised("ConfigurationError")
                 ELSE [raised |-> "no",
                       value |-> Some([region |-> [bounding_box |-> bbox],
                                       time |-> time_config,
                                       output |-> [style |-> style]])]

\* main: before load_config is called, there is no Config.
InitConfig ==
    /\ config = None
    /\ csv = Project(<<>>, AllColumns)
    /\ raw_data = None
    /\ data = None
    /\ gdf = None
    /\ target_date = None
    /\ date_obs = <<>>
    /\ contours = <<>>
    /\ steps = <<>>
    /\ results = <<>>
    /\ returned = None
    /\ current = 0
    /\ error = None
    /\ held = None
    /\ last_call = [op |-> [name |-> "none"], raised |-> "no"]
    /\ mutated = FALSE
    /\ pc = "idle"

\* config = load_config(Path(args.config))
CallLoadConfig ==
    /\ pc = "idle"
    /\ \E raw \in RawConfigs :
          LET r == load_config(raw)
          IN  /\ config' = r.value
              /\ last_call' = [op |-> [name |-> "load_config", raw |-> raw],
                               raised |-> r.raised]
              /\ error' = IF r.raised = "no" THEN None ELSE Some(r.raised)
    /\ pc' = "done"
    /\ UNCHANGED <<csv, raw_data, data, gdf, target_date, date_obs, contours, steps,
                   results, returned, current, held, mutated>>

NextConfig ==
    \/ CallLoadConfig

SpecConfig == InitConfig /\ [][NextConfig]_vars

\* ------------------------------- direct calls of the processor's methods
\* The bounding boxes of the processors called directly: every width and
\* height from 1 to MaxCells cells, the longitudes starting at -1 and the
\* latitudes at 4 (so that a longitude is never a latitude of the same grid).
MapperBoundingBoxes ==
    {[min_lon |-> -1, max_lon |-> -1 + w, min_lat |-> 4, max_lat |-> 4 + h] :
        w \in 1..MaxCells, h \in 1..MaxCells}

\* The contour points handed to the mapper, as <<row, col>> fractional indices
\* (doubled): rows -1, 0, 1 and 1.5, columns 0 and 2.  Row 1.5 rounds to row
\* 2; rows 1 and 2 and column 2 are outside the smaller grids.
MapperPoints == {-2, 0, 2, 3} \X {0, 4}

MapperContours == UNION {[1..n -> MapperPoints] : n \in 0..MaxContourLen}

\* Contours to make lists of several from: a line along row 0, a line down
\* column 0, a single point, and a line above the grid (row -1).
SampleContours ==
    { << <<0, 0>>, <<0, 4>> >>,
      << <<0, 0>>, <<2, 0>>, <<3, 1>> >>,
      << <<2, 1>> >>,
      << <<-2, 0>>, <<-2, 4>> >> }

\* The lists of contours handed to the mapper: none, any one contour, and
\* two or three of the sample contours.
MapperContourLists ==
    {<<>>} \cup {<<c>> : c \in MapperContours}
           \cup {<<a, b>> : a \in SampleContours, b \in SampleContours}
           \cup {<<a, b, c>> : a \in SampleContours, b \in SampleContours,
                                c \in SampleContours}

\* processor = InterpolationProcessor(bbox), one of its methods about to be
\* called once: nothing loaded, nothing run.
InitMapper ==
    /\ config \in [start_date : {0}, end_date : {0}, bounding_box : MapperBoundingBoxes]
    /\ csv = Project(<<>>, AllColumns)
    /\ raw_data = None
    /\ data = None
    /\ gdf = None
    /\ target_date = None
    /\ date_obs = <<>>
    /\ contours = <<>>
    /\ steps = <<>>
    /\ results = <<>>
    /\ returned = None
    /\ current = 0
    /\ error = None
    /\ held = None
    /\ last_call = [op |-> [name |-> "none"], raised |-> "no"]
    /\ mutated = FALSE
    /\ pc = "idle"

\* geometry = processor._contours_to_geometry(contours)
CallContoursToGeometry ==
    /\ pc = "idle"
    /\ \E cs \in MapperContourLists :
          /\ contours' = cs
          /\ held' = Some(contours_to_geometry(cs, config.bounding_box))
    /\ last_call' = [op |-> [name |-> "_contours_to_geometry"], raised |-> "no"]
    /\ pc' = "done"
    /\ UNCHANGED <<config, csv, raw_data, data, gdf, target_date, date_obs, steps,
                   results, returned, current, error, mutated>>

\* _extract_contour(grid) for a grid of the processor's shape forced to 0 on
\* the rows below row `midline` and to 1 from that row on.  gaussian_filter
\* and find_contours are the libraries'; what is taken of them is that the
\* smoothed field (sigma 1.0) is the same along every row and crosses the
\* level 0.5 between the rows midline - 1 and midline, so that marching
\* squares gives one contour with a point on each column, in column order
\* one way or the other, each at a fractional row from midline - 1 to midline.
StepGridContours(midline, shape) ==
    LET ncols == shape[2]
        rows == [1..ncols -> (2 * midline - 2)..(2 * midline)]
    IN  {<<[k \in 1..ncols |-> <<r[k], 2 * (k - 1)>>]>> : r \in rows}
          \cup {<<[k \in 1..ncols |-> <<r[k], 2 * (ncols - k)>>]>> : r \in rows}

\* The step-grid scenario: contours = processor._extract_contour(grid) for a
\* grid forced to 0 below a midline row and 1 from it on, then
\* geometry = processor._contours_to_geometry(contours).
ExtractContourOfStepGrid ==
    /\ pc = "idle"
    /\ LET shape == Shape(create_grid(config.bounding_box).x)
       IN  \E midline \in 1..(shape[1] - 1) :
             \E cs \in StepGridContours(midline, shape) :
                /\ contours' = cs
                /\ held' = Some(contours_to_geometry(cs, config.bounding_box))
                /\ last_call' = [op |-> [name |-> "_extract_contour", midline |-> midline],
                                 raised |-> "no"]
    /\ pc' = "done"
    /\ UNCHANGED <<config, csv, raw_data, data, gdf, target_date, date_obs, steps,
                   results, returned, current, error, mutated>>

NextMapper ==
    \/ CallContoursToGeometry
    \/ ExtractContourOfStepGrid

SpecMapper == InitMapper /\ [][NextMapper]_vars

\* ------------------------------------------ the interpolation onto the grid
\* A number of the interpolated grid: NaN, or the fraction num / den in lowest
\* terms with den > 0.
NaN == [nan |-> TRUE, num |-> 0, den |-> 1]

RECURSIVE Gcd(_, _)
Gcd(a, b) == IF b = 0 THEN a ELSE Gcd(b, a % b)

Fraction(num, den) ==
    LET s == IF den < 0 THEN -1 ELSE 1
        g == Gcd(Abs(num), Abs(den))
    IN  [nan |-> FALSE, num |-> (s * num) \div g, den |-> (s * den) \div g]

\* fill_value=0.0
Zero == Fraction(0, 1)

\* observations['snow_present'].astype(float)
AsFloat(b) == IF b THEN 1 ELSE 0

SquaredNorm(a, d) == (a[1] - d[1]) * (a[1] - d[1]) + (a[2] - d[2]) * (a[2] - d[2])

\* d lies strictly inside the circle through a, b and c (not on one line).
InCircle(a, b, c, d) ==
    LET a1 == a[1] - d[1]  a2 == a[2] - d[2]  a3 == SquaredNorm(a, d)
        b1 == b[1] - d[1]  b2 == b[2] - d[2]  b3 == SquaredNorm(b, d)
        c1 == c[1] - d[1]  c2 == c[2] - d[2]  c3 == SquaredNorm(c, d)
        det == a1 * (b2 * c3 - b3 * c2) - a2 * (b1 * c3 - b3 * c1)
                 + a3 * (b1 * c2 - b2 * c1)
    IN  IF Cross(a, b, c) > 0 THEN det > 0 ELSE det < 0

\* griddata(method='linear'): the triangles of the Delaunay triangulation of
\* the points, as index triples: the triangles with an area whose circle holds
\* no other point strictly inside.
DelaunayTriangles(points) ==
    LET n == Len(points)
    IN  {t \in (1..n) \X (1..n) \X (1..n) :
            /\ t[1] < t[2] /\ t[2] < t[3]
            /\ Cross(points[t[1]], points[t[2]], points[t[3]]) # 0
            /\ \A m \in 1..n :
                  ~InCircle(points[t[1]], points[t[2]], points[t[3]], points[m])}

\* p lies in the triangle a, b, c, its edges included.
Contains(a, b, c, p) ==
    LET w == Cross(a, b, c)
        wa == Cross(p, b, c)
        wb == Cross(a, p, c)
        wc == Cross(a, b, p)
    IN  /\ w # 0
        /\ w > 0 => (wa >= 0 /\ wb >= 0 /\ wc >= 0)
        /\ w < 0 => (wa <= 0 /\ wb <= 0 /\ wc <= 0)

\* The linear interpolant of the triangle t at p: the values at its corners
\* weighted by p's barycentric coordinates.
LinearValue(points, values, t, p) ==
    LET a == points[t[1]]
        b == points[t[2]]
        c == points[t[3]]
    IN  Fraction(Cross(p, b, c) * values[t[1]] + Cross(a, p, c) * values[t[2]]
                   + Cross(a, b, p) * values[t[3]],
                 Cross(a, b, c))

\* The linear interpolants at p of the triangles that hold p: none when p is
\* outside the convex hull of the points.
LinearValues(points, values, p) ==
    {LinearValue(points, values, t, p) :
        t \in {u \in DelaunayTriangles(points) :
                  Contains(points[u[1]], points[u[2]], points[u[3]], p)}}

\* griddata(method='nearest'): the values of the points nearest to p.
NearestValues(points, values, p) ==
    {Fraction(values[i], 1) :
        i \in {k \in 1..Len(points) :
                  \A m \in 1..Len(points) :
                      SquaredNorm(points[k], p) <= SquaredNorm(points[m], p)}}

\* griddata(points, values, (grid_x, grid_y), method, fill_value): raises
\* QhullError for 'linear' when the points span no triangle; else the grid of
\* the interpolated values, fill_value where 'linear' has no triangle.  Where
\* several triangles (or nearest points) serve a node they give one value on
\* the point sets of the model (Unambiguous below).
griddata(points, values, grid, method, fill_value) ==
    LET At(p) ==
            IF method = "nearest"
            THEN CHOOSE v \in NearestValues(points, values, p) : TRUE
            ELSE IF LinearValues(points, values, p) = {} THEN fill_value
            ELSE CHOOSE v \in LinearValues(points, values, p) : TRUE
    IN  IF method = "linear" /\ DelaunayTriangles(points) = {}
        THEN [raised |-> "QhullError", value |-> None]
        ELSE [raised |-> "no",
              value |-> Some([row \in DOMAIN grid.x |->
                                [col \in DOMAIN grid.x[row] |->
                                    At(<<grid.x[row][col], grid.y[row][col]>>)]])]

\* As interpolate_to_grid, griddata called without fill_value (its default is
\* NaN).
InterpolateToGridNaNFill(observations, bbox, method) ==
    griddata([i \in 1..Len(observations) |-> observations[i].geometry],
             [i \in 1..Len(observations) |-> AsFloat(observations[i].snow_present)],
             create_grid(bbox), method, NaN)

\* _interpolate_to_grid(observations)
interpolate_to_grid(observations, bbox, method) ==
    griddata([i \in 1..Len(observations) |-> observations[i].geometry],
             [i \in 1..Len(observations) |-> AsFloat(observations[i].snow_present)],
             create_grid(bbox), method, Zero)

\* The observation points of the direct calls, against MapperBoundingBoxes:
\* three corners of the largest grid, two points on its bottom edge, its
\* centre, and a point outside it.
InterpolationPoints ==
    << <<-1, 4>>, <<0, 4>>, <<1, 4>>, <<-1, 6>>, <<0, 5>>, <<2, 6>> >>

\* The observations handed to _interpolate_to_grid: MinObservations points or
\* one more, in the order above, each with snow or without.
InterpolationObservations ==
    LET k == Len(InterpolationPoints)
        picks == {s \in UNION {[1..n -> 1..k] : n \in MinObservations..(MinObservations + 1)} :
                     \A i \in 1..(Len(s) - 1) : s[i] < s[i + 1]}
    IN  UNION {{[i \in 1..Len(s) |-> [geometry |-> InterpolationPoints[s[i]],
                                       snow_present |-> b[i]]] :
                   b \in [1..Len(s) -> BOOLEAN]} : s \in picks}

\* Every node of the grid gets one value, whichever triangle (or nearest
\* point) of those that serve it is used.
Unambiguous(observations, bbox, method) ==
    LET points == [i \in 1..Len(observations) |-> observations[i].geometry]
        values == [i \in 1..Len(observations) |-> AsFloat(observations[i].snow_present)]
        grid == create_grid(bbox)
    IN  \A row \in DOMAIN grid.x : \A col \in DOMAIN grid.x[row] :
            LET p == <<grid.x[row][col], grid.y[row][col]>>
            IN  IF method = "nearest"
                THEN Cardinality(NearestValues(points, values, p)) = 1
                ELSE Cardinality(LinearValues(points, values, p)) <= 1

\* processor = InterpolationProcessor(bbox, interpolation_method=method), its
\* _interpolate_to_grid about to be called once.
InitInterpolate ==
    /\ config \in [start_date : {0}, end_date : {0}, bounding_box : MapperBoundingBoxes,
                   interpolation_method : {"linear", "nearest"}]
    /\ csv = Project(<<>>, AllColumns)
    /\ raw_data = None
    /\ data = None
    /\ gdf = None
    /\ target_date = None
    /\ date_obs = <<>>
    /\ contours = <<>>
    /\ steps = <<>>
    /\ results = <<>>
    /\ returned = None
    /\ current = 0
    /\ error = None
    /\ held = None
    /\ last_call = [op |-> [name |-> "none"], raised |-> "no"]
    /\ mutated = FALSE
    /\ pc = "idle"

\* grid = processor._interpolate_to_grid(date_obs)
CallInterpolateToGrid ==
    /\ pc = "idle"
    /\ \E obs \in InterpolationObservations :
          /\ Unambiguous(obs, config.bounding_box, config.interpolation_method)
          /\ LET r == interpolate_to_grid(obs, config.bounding_box,
                                          config.interpolation_method)
             IN  /\ date_obs' = obs
                 /\ held' = r.value
                 /\ last_call' = [op |-> [name |-> "_interpolate_to_grid"],
                                  raised |-> r.raised]
    /\ pc' = "done"
    /\ UNCHANGED <<config, csv, raw_data, data, gdf, target_date, contours, steps,
                   results, returned, current, error, mutated>>

NextInterpolate ==
    \/ CallInterpolateToGrid

SpecInterpolate == InitInterpolate /\ [][NextInterpolate]_vars

\* ------------------------------------------------------------------ the maps
\* A text is the sequence of its characters.
Digits == <<"0", "1", "2", "3", "4", "5", "6", "7", "8", "9">>

\* The decimal digits of n, padded with zeros to `width` characters or more.
RECURSIVE ZeroPadded(_, _)
ZeroPadded(n, width) ==
    IF n < 10 /\ width <= 1 THEN <<Digits[n + 1]>>
    ELSE Append(ZeroPadded(n \div 10, width - 1), Digits[(n % 10) + 1])

\* The calendar date of day number 0: the first date of the tests' time range.
EpochYear == 2005
EpochMonth == 1
EpochDay == 15

IsLeap(year) == (year % 4 = 0 /\ year % 100 # 0) \/ year % 400 = 0

DaysInMonth(year, month) ==
    IF month = 2 THEN (IF IsLeap(year) THEN 29 ELSE 28)
    ELSE IF month \in {4, 6, 9, 11} THEN 30 ELSE 31

\* The calendar date `day` days after the day before the 1st of the month.
RECURSIVE Normalise(_, _, _)
Normalise(year, month, day) ==
    IF day <= DaysInMonth(year, month) THEN [year |-> year, month |-> month, day |-> day]
    ELSE IF month = 12 THEN Normalise(year + 1, 1, day - DaysInMonth(year, month))
    ELSE Normalise(year, month + 1, day - DaysInMonth(year, month))

\* The datetime.date a day number stands for.
CalendarDate(d) == Normalise(EpochYear, EpochMonth, EpochDay + d)

\* target_date.strftime('%Y-%m-%d')
strftime(a_date) ==
    LET c == CalendarDate(a_date)
    IN  ZeroPadded(c.year, 4) \o <<"-">> \o ZeroPadded(c.month, 2) \o <<"-">>
          \o ZeroPadded(c.day, 2)

\* _generate_filename(target_date)
generate_filename(output, a_date) ==
    output.filename_prefix \o strftime(a_date) \o <<".", "s", "v", "g">>

\* output_dir / filename, the filename being a single relative component.
PathJoin(output_dir, filename) == [parent |-> output_dir, name |-> filename]

\* As NoOverlay, only a table without rows skipped.
NoOverlayOnlyWhenEmpty(snowline) == snowline.rows = <<>>

\* _add_snowline draws nothing: snowline.empty or snowline.geometry.isna().all()
NoOverlay(snowline) ==
    \/ snowline.rows = <<>>
    \/ \A i \in 1..Len(snowline.rows) : snowline.rows[i].geometry = None

\* The machine render() runs on: whether the Natural Earth features can be
\* drawn (cached or downloadable), and whether the output path can be written.
Environments == [natural_earth : BOOLEAN, writable : BOOLEAN]

\* CartopyRenderer.render(snowline, target_date, output_path) as a record of
\* the call: its arguments, the figure saved ("full", or "fallback" after the
\* first attempt raised), whether the snowline overlay was drawn on it,
\* whether the file was written, and how the call ended.  On a path that
\* cannot be written mkdir or both savefig calls raise.
render(snowline, a_date, output_path, env) ==
    IF ~env.writable
    THEN [snowline |-> snowline, target_date |-> a_date,
          output_path |-> output_path, figure |-> "none", overlay |-> FALSE,
          saved |-> FALSE, raised |-> "OSError", value |-> None]
    ELSE [snowline |-> snowline, target_date |-> a_date,
          output_path |-> output_path,
          figure |-> IF env.natural_earth THEN "full" ELSE "fallback",
          overlay |-> ~NoOverlay(snowline),
          saved |-> TRUE, raised |-> "no", value |-> Some(output_path)]

\* As GenerateAllFrom, a date whose table has no rows skipped.
RECURSIVE GenerateAllSkipsEmpty(_, _, _)
GenerateAllSkipsEmpty(items, output, env) ==
    IF items = <<>> THEN [renders |-> <<>>, raised |-> "no", output_paths |-> <<>>]
    ELSE LET output_path == PathJoin(output.directory,
                                     generate_filename(output, Head(items)[1]))
             r == render(Head(items)[2], Head(items)[1], output_path, env)
             rest == GenerateAllSkipsEmpty(Tail(items), output, env)
         IN  IF Head(items)[2].rows = <<>> THEN rest
             ELSE IF r.raised # "no"
             THEN [renders |-> <<r>>, raised |-> r.raised, output_paths |-> <<>>]
             ELSE [renders |-> <<r>> \o rest.renders, raised |-> rest.raised,
                   output_paths |-> IF rest.raised = "no"
                                    THEN <<output_path>> \o rest.output_paths
                                    ELSE <<>>]

\* generate_all: the loop over snowlines.items(), from `items` on: the render
\* calls made, and the paths returned unless a render call raised.
RECURSIVE GenerateAllFrom(_, _, _)
GenerateAllFrom(items, output, env) ==
    IF items = <<>> THEN [renders |-> <<>>, raised |-> "no", output_paths |-> <<>>]
    ELSE LET output_path == PathJoin(output.directory,
                                     generate_filename(output, Head(items)[1]))
             r == render(Head(items)[2], Head(items)[1], output_path, env)
             rest == GenerateAllFrom(Tail(items), output, env)
         IN  IF r.raised # "no"
             THEN [renders |-> <<r>>, raised |-> r.raised, output_paths |-> <<>>]
             ELSE [renders |-> <<r>> \o rest.renders, raised |-> rest.raised,
                   output_paths |-> IF rest.raised = "no"
                                    THEN <<output_path>> \o rest.output_paths
                                    ELSE <<>>]

\* generate_all(snowlines)
generate_all(snowlines, output, env) == GenerateAllFrom(snowlines, output, env)

\* The dates of the maps, as day numbers: 2005-01-15, 2005-01-16, 2005-02-01
\* and 2005-12-31.
GeneratorDates == {0, 1, 17, 350}

\* A line across the region.
SampleGeometry ==
    MultiLineString(<<LineString(<< <<0, 0>>, <<1, 1>>, <<2, 0>> >>)>>)

\* The tables extract_snowline can have returned for the date d: no rows, a
\* labelled row without geometry, a row with a geometry, a row without one.
FramesFor(d) ==
    LET obs == <<MakeRow(d, 1, TRUE), MakeRow(d, 2, FALSE), MakeRow(d, 3, FALSE)>>
    IN  {NoDataResult(d), create_empty_result(d, "no_snow"),
         SnowlineResult(d, Some(SampleGeometry), obs), SnowlineResult(d, None, obs)}

\* The snowlines mappings handed to generate_all: at most MaxEntries entries,
\* their dates distinct, in any order.
SnowlineMappings ==
    LET keys == {s \in UNION {[1..n -> GeneratorDates] : n \in 0..MaxEntries} :
                    \A i, j \in 1..Len(s) : i # j => s[i] # s[j]}
    IN  UNION {{[i \in 1..Len(s) |-> <<s[i], f[i]>>] :
                   f \in {g \in [1..Len(s) -> UNION {FramesFor(d) : d \in GeneratorDates}] :
                             \A i \in 1..Len(s) : g[i] \in FramesFor(s[i])}} :
               s \in keys}

\* config.output: the output directory and the filename prefix.
OutputConfigs ==
    [directory : {"output"},
     filename_prefix : {<<"s", "n", "o", "w", "l", "i", "n", "e", "_">>,
                        <<"m", "a", "p", "_">>}]

\* renderer = CartopyRenderer(config); generator = MapGenerator(config,
\* renderer): nothing rendered yet.
InitMaps ==
    /\ config \in [start_date : {0}, end_date : {0}, bounding_box : BoundingBoxes,
                   output : OutputConfigs]
    /\ csv = Project(<<>>, AllColumns)
    /\ raw_data = None
    /\ data = None
    /\ gdf = None
    /\ target_date = None
    /\ date_obs = <<>>
    /\ contours = <<>>
    /\ steps = <<>>
    /\ results = <<>>
    /\ returned = None
    /\ current = 0
    /\ error = None
    /\ held = None
    /\ last_call = [op |-> [name |-> "none"], raised |-> "no"]
    /\ mutated = FALSE
    /\ pc = "idle"

\* output_paths = generator.generate_all(snowlines); `steps` takes the render
\* calls made.
CallGenerateAll ==
    /\ pc = "idle"
    /\ \E snowlines \in SnowlineMappings, env \in Environments :
          LET r == generate_all(snowlines, config.output, env)
          IN  /\ results' = snowlines
              /\ steps' = r.renders
              /\ held' = IF r.raised = "no" THEN Some(r.output_paths) ELSE None
              /\ last_call' = [op |-> [name |-> "generate_all", env |-> env],
                               raised |-> r.raised]
    /\ pc' = "done"
    /\ UNCHANGED <<config, csv, raw_data, data, gdf, target_date, date_obs, contours,
                   returned, current, error, mutated>>

\* The crs of a snowline table of the clean-up dropped: render reads the rows.
RenderFrames == {[columns |-> f.columns, rows |-> f.rows] : f \in SnowlineFrames}

\* result_path = renderer.render(snowline, target_date, output_path)
CallRender ==
    /\ pc = "idle"
    /\ \E snowline \in RenderFrames, d \in {0, 350}, env \in Environments,
          name \in {<<"m", "a", "p", ".", "s", "v", "g">>, <<"e", ".", "s", "v", "g">>} :
          LET r == render(snowline, d, PathJoin("tmp", name), env)
          IN  /\ steps' = <<r>>
              /\ held' = r.value
              /\ last_call' = [op |-> [name |-> "render", env |-> env],
                               raised |-> r.raised]
    /\ pc' = "done"
    /\ UNCHANGED <<config, csv, raw_data, data, gdf, target_date, date_obs, contours,
                   results, returned, current, error, mutated>>

NextMaps ==
    \/ CallGenerateAll
    \/ CallRender

SpecMaps == InitMaps /\ [][NextMaps]_vars

\* ------------------------------------------------------------------- main
\* The CSV files of the runs of main: at most MinObservations rows, all of one
\* date, at sites inside the bounding box.
MainCsvFiles ==
    {f \in CsvFiles :
        /\ Len(f.rows) <= MinObservations
        /\ \A i, j \in 1..Len(f.rows) :
              /\ f.rows[i].site_id = f.rows[j].site_id => i = j
              /\ "date" \in f.columns => f.rows[i].date = f.rows[j].date
        /\ \A i \in 1..Len(f.rows) : \A bbox \in BoundingBoxes :
              /\ bbox.min_lon <= f.rows[i].longitude /\ f.rows[i].longitude <= bbox.max_lon
              /\ bbox.min_lat <= f.rows[i].latitude /\ f.rows[i].latitude <= bbox.max_lat}

\* main after load_config: the loader, the processor and the pipeline are
\* built; pipeline.run() is next.
InitMain ==
    /\ config \in {c \in [start_date : Dates, end_date : Dates,
                            bounding_box : BoundingBoxes, output : OutputConfigs] :
                       c.start_date <= c.end_date}
    /\ csv \in MainCsvFiles
    /\ raw_data = None
    /\ data = None
    /\ gdf = None
    /\ target_date = None
    /\ date_obs = <<>>
    /\ contours = <<>>
    /\ steps = <<>>
    /\ results = <<>>
    /\ returned = None
    /\ current = config.start_date
    /\ error = None
    /\ held = None
    /\ last_call = [op |-> [name |-> "none"], raised |-> "no"]
    /\ mutated = FALSE
    /\ pc = "load"

\* main: snowlines = pipeline.run() has returned; the renderer and the
\* generator are built and output_paths = generator.generate_all(snowlines)
\* runs.  `steps` takes the render calls made.
GenerateMaps ==
    /\ pc = "done"
    /\ \E env \in Environments :
          LET r == generate_all(returned[1], config.output, env)
          IN  /\ steps' = r.renders
              /\ last_call' = [op |-> [name |-> "generate_all", env |-> env],
                               raised |-> r.raised]
              /\ IF r.raised = "no"
                 THEN held' = Some(r.output_paths) /\ pc' = "report" /\ error' = error
                 ELSE held' = None /\ pc' = "failed" /\ error' = Some(r.raised)
    /\ UNCHANGED <<config, csv, raw_data, data, gdf, target_date, date_obs, contours,
                   results, returned, current, mutated>>

\* As ExitOnError, the handler leaving with status 0.
ExitOnErrorStatusZero ==
    /\ pc = "failed"
    /\ pc' = "exit_0"
    /\ UNCHANGED <<config, csv, raw_data, data, gdf, target_date, date_obs, contours,
                   steps, results, returned, current, error, caller>>

\* main: an exception reached the except clauses: sys.exit(1).
ExitOnError ==
    /\ pc = "failed"
    /\ pc' = "exit_1"
    /\ UNCHANGED <<config, csv, raw_data, data, gdf, target_date, date_obs, contours,
                   steps, results, returned, current, error, caller>>

\* main: the paths are printed and main returns: the process ends with
\* status 0.
Finish ==
    /\ pc = "report"
    /\ pc' = "exit_0"
    /\ UNCHANGED <<config, csv, raw_data, data, gdf, target_date, date_obs, contours,
                   steps, results, returned, current, error, caller>>

NextMain ==
    \/ Next
    \/ GenerateMaps
    \/ ExitOnError
    \/ Finish

SpecMain == InitMain /\ [][NextMain]_vars

\* ------------------------------------------------------------- the claims
\* The keys of a dict, in insertion order.
Keys(d) == [i \in 1..Len(d) |-> d[i][1]]

\* The value a dict holds under a key it has.
ValueOf(d, key) == d[CHOOSE i \in 1..Len(d) : d[i][1] = key][2]

\* A call of extract_snowline has been made; target_date, date_obs and steps
\* are those of the latest one.
ExtractCalled == target_date # None

\* The latest call of extract_snowline has returned and run() has stored its
\* frame.
ExtractReturned ==
    /\ ExtractCalled
    /\ pc \in {"loop", "done"}
    /\ \E i \in 1..Len(results) : results[i][1] = target_date[1]

\* The frame the latest call returned.
LatestFrame == ValueOf(results, target_date[1])

\* The observations all carry a snow_present value.
HasSnowPresent(obs) == \A i \in 1..Len(obs) : "snow_present" \in DOMAIN obs[i]

Mixed(obs) == AnySnow(obs) /\ ~AllSnow(obs)

\* A frame of exactly one row, labelled `reason`, with an absent geometry.
OneRowLabelled(frame, reason) ==
    /\ Len(frame.rows) = 1
    /\ "reason" \in frame.columns
    /\ frame.rows[1].reason = reason
    /\ frame.rows[1].geometry = None

\* C1: when run() returns, the mapping's keys, in insertion order, are exactly
\* the dates start_date, start_date + 1, ..., end_date: one entry per date of
\* the range, (end_date - start_date) + 1 entries, no other key, also for the
\* dates without observations.
C1_OneEntryPerDate ==
    returned # None =>
        Keys(returned[1]) =
            [i \in 1..(config.end_date - config.start_date + 1) |->
                config.start_date + (i - 1)]

\* C1 witness: run() has returned a mapping of two dates or more, one of them
\* without observations (a zero-row frame) and one with a row.
C1_Witness ==
    /\ returned # None
    /\ Len(returned[1]) >= 2
    /\ \E i \in 1..Len(returned[1]) : returned[1][i][2].rows = <<>>
    /\ \E i \in 1..Len(returned[1]) : returned[1][i][2].rows # <<>>

\* C2: a non-empty observation subset whose snow_present values are all true
\* gives exactly one row, geometry absent, reason "complete_snow", and one whose
\* values are all false gives reason "no_snow", whatever the subset's size; the
\* call returns from the edge-case checks, no other step run.
C2_UniformStates ==
    (ExtractCalled /\ date_obs # <<>> /\ HasSnowPresent(date_obs)
                   /\ ~Mixed(date_obs)) =>
        /\ ExtractReturned
        /\ steps = <<"classify">>
        /\ AllSnow(date_obs) => OneRowLabelled(LatestFrame, "complete_snow")
        /\ ~AnySnow(date_obs) => OneRowLabelled(LatestFrame, "no_snow")

\* C2 witness: a call with one or two observations, all without snow, has
\* returned a frame labelled from their state and not for their count.
C2_Witness ==
    /\ ExtractReturned
    /\ Len(date_obs) \in {1, 2}
    /\ HasSnowPresent(date_obs)
    /\ ~AnySnow(date_obs)
    /\ OneRowLabelled(LatestFrame, "no_snow")

\* C3: fewer than 3 observations of mixed states give exactly one row, geometry
\* absent, reason "insufficient_data", and interpolation is never run.
C3_InsufficientData ==
    (ExtractCalled /\ date_obs # <<>> /\ HasSnowPresent(date_obs)
                   /\ Len(date_obs) < 3 /\ Mixed(date_obs)) =>
        /\ ExtractReturned
        /\ OneRowLabelled(LatestFrame, "insufficient_data")
        /\ \A i \in 1..Len(steps) : steps[i] # "interpolate"
        /\ pc \notin {"interpolate", "contour", "geometry", "failed"}

\* C3 witness: a call with two observations of mixed states has returned.
C3_Witness ==
    /\ ExtractReturned
    /\ HasSnowPresent(date_obs)
    /\ Len(date_obs) < 3
    /\ Mixed(date_obs)
    /\ OneRowLabelled(LatestFrame, "insufficient_data")

\* C4: a date without observations gets a frame of zero rows; a labelled frame
\* (complete_snow, no_snow, insufficient_data) has exactly one row, and its
\* geometry is absent.
C4_ZeroRowsOrOneRow ==
    ExtractReturned =>
        /\ date_obs = <<>> => LatestFrame.rows = <<>>
        /\ (date_obs # <<>> /\ steps = <<"classify">>) =>
               \E reason \in {"complete_snow", "no_snow", "insufficient_data"} :
                   OneRowLabelled(LatestFrame, reason)

\* C4 witness: run() holds a zero-row frame for one date and a labelled one-row
\* frame for another.
C4_Witness ==
    /\ ExtractReturned
    /\ \E i \in 1..Len(results) : results[i][2].rows = <<>>
    /\ \E i \in 1..Len(results) :
          /\ Len(results[i][2].rows) = 1
          /\ "reason" \in results[i][2].columns

\* C5: in every one-row frame extract_snowline returns, observation_count is
\* the number of observations of the target date, whichever branch made it.
C5_ObservationCount ==
    (ExtractReturned /\ LatestFrame.rows # <<>>) =>
        LatestFrame.rows[1].observation_count = Len(date_obs)

\* The number of a contour's points whose rounded indices lie in the grid of
\* the configured bounding box.
PointsInGrid(contour) ==
    LET shape == Shape(create_grid(config.bounding_box).y)
    IN  Cardinality({i \in 1..Len(contour) :
            /\ 0 <= Round(contour[i][1]) /\ Round(contour[i][1]) < shape[1]
            /\ 0 <= Round(contour[i][2]) /\ Round(contour[i][2]) < shape[2]})

\* C6 as claimed: in every one-row frame, the geometry is absent exactly when a
\* reason is set.
C6_AbsentIffReason ==
    (ExtractReturned /\ Len(LatestFrame.rows) = 1) =>
        (LatestFrame.rows[1].geometry = None <=> "reason" \in LatestFrame.columns)

\* C6 as amended: in every one-row frame, a reason implies an absent geometry,
\* and a frame without a reason has an absent geometry exactly when no contour
\* kept two points or more inside the grid.
C6_ReasonImpliesAbsent ==
    (ExtractReturned /\ Len(LatestFrame.rows) = 1) =>
        IF "reason" \in LatestFrame.columns
        THEN LatestFrame.rows[1].geometry = None
        ELSE (LatestFrame.rows[1].geometry = None
                <=> ~(\E i \in 1..Len(contours) : PointsInGrid(contours[i]) >= 2))

\* C6 witness: a frame without a reason whose geometry is absent, the contour
\* found having a single point.
C6_Witness ==
    /\ ExtractReturned
    /\ Len(LatestFrame.rows) = 1
    /\ "reason" \notin LatestFrame.columns
    /\ LatestFrame.rows[1].geometry = None
    /\ contours # <<>>

\* C7 as claimed: two observations, of any snow_present values, give exactly
\* one row, geometry absent, reason "insufficient_data".
C7_TwoObservations ==
    (ExtractReturned /\ Len(date_obs) = 2) =>
        OneRowLabelled(LatestFrame, "insufficient_data")

\* C7 as amended: two observations whose snow_present values differ give
\* exactly one row, geometry absent, reason "insufficient_data"; two that agree
\* are labelled by their state instead.
C7_TwoMixedObservations ==
    (ExtractCalled /\ Len(date_obs) = 2 /\ HasSnowPresent(date_obs)) =>
        /\ ExtractReturned
        /\ OneRowLabelled(LatestFrame,
              IF Mixed(date_obs) THEN "insufficient_data"
              ELSE IF AllSnow(date_obs) THEN "complete_snow" ELSE "no_snow")

\* C7 witness: two observations, one with snow and one without, labelled
\* insufficient_data, the call being the first of the run.
C7_Witness ==
    /\ ExtractReturned
    /\ Len(date_obs) = 2
    /\ HasSnowPresent(date_obs)
    /\ date_obs[1].snow_present # date_obs[2].snow_present
    /\ OneRowLabelled(LatestFrame, "insufficient_data")
    /\ Len(results) = 1

\* A row of the GeoDataFrame without its geometry: the row of the loaded table.
WithoutGeometry(r) == [c \in DOMAIN r \ {"geometry"} |-> r[c]]

\* C8: the observations extract_snowline works on for its target date are
\* exactly the rows of the loaded table with that date and inside the bounding
\* box, edges included, in the table's order; the target date is in the range.
C8_SubsetIsPureQuery ==
    ExtractCalled =>
        LET d == target_date[1]
            bbox == config.bounding_box
            Keep(r) == /\ r.date = d
                       /\ bbox.min_lon <= r.longitude /\ r.longitude <= bbox.max_lon
                       /\ bbox.min_lat <= r.latitude /\ r.latitude <= bbox.max_lat
        IN  /\ config.start_date <= d /\ d <= config.end_date
            /\ [i \in 1..Len(date_obs) |-> WithoutGeometry(date_obs[i])]
                 = SelectSeq(raw_data[1].rows, Keep)

\* C8 witness: the target date has an observation inside the box, on its edge,
\* and the loaded table also holds a row the filters dropped.
C8_Witness ==
    /\ ExtractCalled
    /\ date_obs # <<>>
    /\ \E i \in 1..Len(date_obs) :
          date_obs[i].longitude = config.bounding_box.max_lon
    /\ Len(date_obs) < Len(raw_data[1].rows)

\* C9: the loader's cache always equals the table first read from the file;
\* a load() that returns hands back a table equal to it, and a filter call that
\* returns hands back exactly the rows of that full table inside the call's
\* own bounds, whatever calls and caller changes came before.
C9_CacheUntouched ==
    /\ raw_data # None => raw_data[1] = csv
    /\ (last_call.raised = "no" /\ last_call.op.name = "load") =>
          Deref(held[1], raw_data) = csv
    /\ (last_call.raised = "no" /\ last_call.op.name = "filter_by_date_range") =>
          LET Keep(r) == last_call.op.start_date <= r.date
                         /\ r.date <= last_call.op.end_date
          IN  Deref(held[1], raw_data) =
                  [columns |-> csv.columns, rows |-> SelectSeq(csv.rows, Keep)]
    /\ (last_call.raised = "no" /\ last_call.op.name = "filter_by_bounding_box") =>
          LET bbox == last_call.op.bbox
              Keep(r) == /\ bbox.min_lon <= r.longitude /\ r.longitude <= bbox.max_lon
                         /\ bbox.min_lat <= r.latitude /\ r.latitude <= bbox.max_lat
          IN  Deref(held[1], raw_data) =
                  [columns |-> csv.columns, rows |-> SelectSeq(csv.rows, Keep)]

\* C9 witness: after the caller changed a table it was handed, a load() of a
\* file with rows has returned.
C9_Witness ==
    /\ mutated
    /\ last_call.op.name = "load"
    /\ last_call.raised = "no"
    /\ csv.rows # <<>>

\* C10: when extraction raises for one date of a run over several dates, the
\* run is not aborted: it still returns, with an entry for every other date.
C10_FailureIsolated ==
    (ExtractCalled /\ error # None /\ config.start_date < config.end_date) =>
        /\ pc # "failed"
        /\ (pc = "done" =>
               \A d \in (config.start_date..config.end_date) \ {target_date[1]} :
                   \E i \in 1..Len(returned[1]) : returned[1][i][1] = d)

\* ---------------------------------------------- the geometry mapper's claims
\* The latest call was _contours_to_geometry(contours); held[1] is what it
\* returned: None or Some(geometry).
MapperReturned == last_call.op.name = "_contours_to_geometry" /\ held # None

\* The number of the contours handed over that keep two points or more inside
\* the grid.
SurvivingContours ==
    Cardinality({i \in 1..Len(contours) : PointsInGrid(contours[i]) >= 2})

\* C11 as claimed: the mapper returns a single-line geometry when exactly one
\* contour survives, a multi-line geometry of all surviving lines when more
\* than one survives, and absent when none survives.
C11_SingleLineWhenOne ==
    MapperReturned =>
        LET geometry == held[1]
        IN  /\ SurvivingContours = 0 => geometry = None
            /\ SurvivingContours = 1 =>
                   (geometry # None /\ geometry[1].type = "LineString")
            /\ SurvivingContours > 1 =>
                   /\ geometry # None
                   /\ geometry[1].type = "MultiLineString"
                   /\ Len(geometry[1].lines) = SurvivingContours

\* C11 as amended: the mapper returns absent when no contour survives, and
\* otherwise a multi-line geometry with one line per surviving contour, also
\* when exactly one survives.
C11_MultiLineOfSurvivors ==
    MapperReturned =>
        LET geometry == held[1]
        IN  IF SurvivingContours = 0 THEN geometry = None
            ELSE /\ geometry # None
                 /\ geometry[1].type = "MultiLineString"
                 /\ Len(geometry[1].lines) = SurvivingContours
                 /\ \A i \in 1..Len(geometry[1].lines) :
                       geometry[1].lines[i].type = "LineString"

\* C11 witness: of two contours handed over exactly one survives, and the
\* mapper has returned a multi-line geometry of that one line.
C11_Witness ==
    /\ MapperReturned
    /\ Len(contours) = 2
    /\ SurvivingContours = 1
    /\ held[1] # None
    /\ held[1][1].type = "MultiLineString"
    /\ Len(held[1][1].lines) = 1

\* A contour point whose rounded row and column lie inside the grid of the
\* processor's bounding box.
InGrid(p) ==
    LET grid == create_grid(config.bounding_box)
    IN  /\ Round(p[1]) \in DOMAIN grid.y
        /\ Round(p[2]) \in DOMAIN grid.y[0]

\* The grid node a contour point rounds to, as <<longitude, latitude>> read
\* from the grid's coordinate arrays.
GridNode(p) ==
    LET grid == create_grid(config.bounding_box)
    IN  <<grid.x[Round(p[1])][Round(p[2])], grid.y[Round(p[1])][Round(p[2])]>>

\* The line expected of a contour's in-grid points, in the contour's order.
ExpectedLine(kept) ==
    [type |-> "LineString", coords |-> [k \in 1..Len(kept) |-> GridNode(kept[k])]]

\* C12: every contour point whose rounded (row, col) is outside the grid is
\* dropped without error and the remaining points keep their order; a contour
\* left with fewer than 2 coordinate pairs contributes no line, and every
\* contour with 2 or more surviving pairs contributes exactly one line, made of
\* its surviving points, the lines in the order of their contours.
C12_DropsOutOfGridPoints ==
    MapperReturned =>
        LET AtLeastTwo(kept) == Len(kept) >= 2
            kept == SelectSeq([i \in 1..Len(contours) |-> SelectSeq(contours[i], InGrid)],
                              AtLeastTwo)
            lines == IF held[1] = None THEN <<>> ELSE held[1][1].lines
        IN  /\ last_call.raised = "no"
            /\ lines = [j \in 1..Len(kept) |-> ExpectedLine(kept[j])]

\* C12 witness: a contour of three points, the middle one outside the grid,
\* has given a line of its first and last points.
C12_Witness ==
    /\ MapperReturned
    /\ Len(contours) = 1
    /\ Len(contours[1]) = 3
    /\ InGrid(contours[1][1]) /\ ~InGrid(contours[1][2]) /\ InGrid(contours[1][3])
    /\ held[1] # None
    /\ held[1][1].lines[1].coords = <<GridNode(contours[1][1]), GridNode(contours[1][3])>>
    /\ GridNode(contours[1][1]) # GridNode(contours[1][3])

\* A contour of two points or more whose fractional indices are all exact
\* integers inside the grid.
IntegralInGrid(contour) ==
    /\ Len(contour) >= 2
    /\ \A k \in 1..Len(contour) :
          /\ contour[k][1] % 2 = 0 /\ contour[k][2] % 2 = 0
          /\ InGrid(contour[k])

C14_WithinOneCellOfMidline ==
    (last_call.op.name = "_extract_contour" /\ held # None /\ held[1] # None) =>
        LET midline_lat == config.bounding_box.min_lat
                               + last_call.op.midline * GridResolution
        IN  \A i \in 1..Len(held[1][1].lines) :
              \A k \in 1..Len(held[1][1].lines[i].coords) :
                 Abs(held[1][1].lines[i].coords[k][2] - midline_lat) <= GridResolution

\* C14 witness: the midline is row 2, the contour found runs half a cell below
\* it, and rounding has put a vertex of the mapped line on row 1 and another
\* on row 2.
C14_Witness ==
    /\ last_call.op.name = "_extract_contour"
    /\ last_call.op.midline = 2
    /\ held # None /\ held[1] # None
    /\ \E k \in 1..Len(contours[1]) : contours[1][k][1] = 3
    /\ \E k \in 1..Len(held[1][1].lines[1].coords) :
          held[1][1].lines[1].coords[k][2] = config.bounding_box.min_lat + 1
    /\ \E k \in 1..Len(held[1][1].lines[1].coords) :
          held[1][1].lines[1].coords[k][2] = config.bounding_box.min_lat + 2

\* ------------------------------------------------- the configuration's claims
\* The file read by the latest load_config call declares four numbers for its
\* bounding box and they break the box's invariant.
DeclaresBadBox ==
    LET y == last_call.op.raw[1]
        lons == {y.min_lon.value, y.max_lon.value}
        lats == {y.min_lat.value, y.max_lat.value}
    IN  /\ y.min_lon.number /\ y.max_lon.number /\ y.min_lat.number /\ y.max_lat.number
        /\ \/ y.min_lon.value >= y.max_lon.value
           \/ y.min_lat.value >= y.max_lat.value
           \/ lons \ (-180..180) # {}
           \/ lats \ (-90..90) # {}

\* That file declares two dates and the start is after the end.
DeclaresBadDates ==
    LET y == last_call.op.raw[1]
    IN  y.start_date.iso /\ y.end_date.iso /\ y.start_date.day > y.end_date.day

\* C15: load_config returns a Config only if min_lon < max_lon, min_lat <
\* max_lat, both longitudes are in [-180, 180], both latitudes in [-90, 90] and
\* start_date <= end_date; if any of these fails it raises ConfigurationError
\* and returns no Config.
C15_InvalidRaisesConfigurationError ==
    last_call.op.name = "load_config" =>
        /\ config # None =>
              LET bbox == config[1].region.bounding_box
              IN  /\ bbox.min_lon < bbox.max_lon /\ bbox.min_lat < bbox.max_lat
                  /\ -180 <= bbox.min_lon /\ bbox.max_lon <= 180
                  /\ -90 <= bbox.min_lat /\ bbox.max_lat <= 90
                  /\ config[1].time.start_date <= config[1].time.end_date
        /\ (last_call.op.raw # None /\ (DeclaresBadBox \/ DeclaresBadDates)) =>
              (config = None /\ last_call.raised = "ConfigurationError")

\* ------------------------------------------------------ the loader's claims
\* The latest call of the loader's method `name` has returned a table.
LoaderReturned(name) ==
    /\ last_call.op.name = name
    /\ last_call.raised = "no"
    /\ held # None

\* C16: filter_by_date_range returns exactly the rows of the loaded table with
\* start_date <= date <= end_date, and filter_by_bounding_box exactly those
\* with min_lon <= longitude <= max_lon and min_lat <= latitude <= max_lat, in
\* the table's order: a row lying exactly on a bound is kept.
C16_FiltersInclusive ==
    /\ LoaderReturned("filter_by_date_range") =>
          LET OnOrBetween(r) == /\ ~(r.date < last_call.op.start_date)
                                /\ ~(r.date > last_call.op.end_date)
          IN  /\ held[1].table.rows = SelectSeq(raw_data[1].rows, OnOrBetween)
              /\ held[1].table.columns = raw_data[1].columns
    /\ LoaderReturned("filter_by_bounding_box") =>
          LET bbox == last_call.op.bbox
              OnOrInside(r) == /\ ~(r.longitude < bbox.min_lon)
                               /\ ~(r.longitude > bbox.max_lon)
                               /\ ~(r.latitude < bbox.min_lat)
                               /\ ~(r.latitude > bbox.max_lat)
          IN  /\ held[1].table.rows = SelectSeq(raw_data[1].rows, OnOrInside)
              /\ held[1].table.columns = raw_data[1].columns

\* C16 witness: a filter to a single day (start_date = end_date) has returned
\* a row of that day and dropped a row of another day.
C16_Witness ==
    /\ LoaderReturned("filter_by_date_range")
    /\ last_call.op.start_date = last_call.op.end_date
    /\ held[1].table.rows # <<>>
    /\ held[1].table.rows[1].date = last_call.op.end_date
    /\ Len(held[1].table.rows) < Len(raw_data[1].rows)

\* C17: load() raises DataValidationError, and hands back no table, whenever
\* any of the five columns date, site_id, latitude, longitude and snow_present
\* is missing from the file.
C17_FiveColumnsRequired ==
    (last_call.op.name = "load" /\ AllColumns \ csv.columns # {}) =>
        last_call.raised = "DataValidationError"

\* ------------------------------------------------- the clean-up's claims
PostprocessNames == {"simplify_snowline", "smooth_snowline", "merge_line_segments"}

\* C18: simplify_snowline, smooth_snowline and merge_line_segments each return
\* a new table with the coordinate reference system and the number of rows of
\* the input, and leave the input table, its geometry column included,
\* unchanged; merge_line_segments returns every geometry that is not a
\* multi-line geometry unchanged.
C18_CleanUpLeavesInput ==
    last_call.op.name \in PostprocessNames =>
        LET input == last_call.op.gdf
            result == held[1]
        IN  /\ ~result.alias
            /\ gdf[1] = input
            /\ result.table.crs = input.crs
            /\ Len(result.table.rows) = Len(input.rows)
            /\ last_call.op.name = "merge_line_segments" =>
                  \A i \in 1..Len(input.rows) :
                     (\/ input.rows[i].geometry = None
                      \/ input.rows[i].geometry[1].type # "MultiLineString") =>
                         result.table.rows[i].geometry = input.rows[i].geometry

\* C18 witness: merge_line_segments has merged the multi-line geometry of one
\* row into a single line and handed back the single line of another row as
\* it was, the input still holding its multi-line geometry.
C18_Witness ==
    /\ last_call.op.name = "merge_line_segments"
    /\ Len(gdf[1].rows) = 2
    /\ gdf[1].rows[1].geometry # None
    /\ gdf[1].rows[1].geometry[1].type = "MultiLineString"
    /\ held[1].table.rows[1].geometry[1].type = "LineString"
    /\ gdf[1].rows[2].geometry # None
    /\ gdf[1].rows[2].geometry[1].type = "LineString"
    /\ held[1].table.rows[2].geometry = gdf[1].rows[2].geometry

\* ------------------------------------------------ the grid builder's claims
\* C20: the grid's x and y arrays have the same shape, every grid longitude x
\* satisfies min_lon <= x < max_lon and every grid latitude y satisfies
\* min_lat <= y < max_lat: the stepping never reaches the stop bound.
C20_GridInsideHalfOpenBox ==
    last_call.op.name = "_create_grid" =>
        LET grid == held[1]
            bbox == config.bounding_box
        IN  /\ Shape(grid.x) = Shape(grid.y)
            /\ \A row \in DOMAIN grid.x : \A col \in DOMAIN grid.x[row] :
                  /\ bbox.min_lon <= grid.x[row][col] /\ grid.x[row][col] < bbox.max_lon
                  /\ bbox.min_lat <= grid.y[row][col] /\ grid.y[row][col] < bbox.max_lat

\* ------------------------------------------------ the extraction's claims
\* The latest call went past the edge-case checks: three observations or more,
\* of mixed states.
NormalPath ==
    /\ ExtractCalled
    /\ HasSnowPresent(date_obs)
    /\ Len(date_obs) >= MinObservations
    /\ Mixed(date_obs)

\* A frame of exactly one row, without a reason label, its geometry absent.
OneRowAbsentUnlabelled(frame) ==
    /\ Len(frame.rows) = 1
    /\ "reason" \notin frame.columns
    /\ frame.rows[1].geometry = None

\* C22: a numeric failure inside the normal extraction path (an interpolation
\* that cannot produce values, as on observation points all on one line) does
\* not raise out of extract_snowline: the call returns one row, geometry
\* absent, no reason label.
C22_NumericFailureGivesAbsent ==
    (NormalPath /\ Degenerate(date_obs)) =>
        /\ pc # "failed"
        /\ ExtractReturned => OneRowAbsentUnlabelled(LatestFrame)

\* C23: when extract_snowline returns for a date with at least 3 observations
\* of mixed states, the frame has exactly one row, no reason label, and an
\* observation_count equal to the number of that date's observations, the
\* geometry being present or absent.
C23_MixedGivesOneCountedRow ==
    (NormalPath /\ ExtractReturned) =>
        /\ Len(LatestFrame.rows) = 1
        /\ "reason" \notin LatestFrame.columns
        /\ LatestFrame.rows[1].observation_count = Len(date_obs)
        /\ LatestFrame.rows[1].date = target_date[1]

\* C23 witness: three observations of mixed states have given a row with a
\* geometry and the count 3.
C23_Witness ==
    /\ NormalPath
    /\ ExtractReturned
    /\ LatestFrame.rows[1].geometry # None
    /\ LatestFrame.rows[1].observation_count = 3

\* The steps of one extract_snowline call, in the source's order.
StepOrder == <<"classify", "interpolate", "smooth", "contour", "map">>

\* C24: within one extract_snowline call the steps run in the order classify,
\* interpolate, smooth, contour, map, the classifier first; a zero-row or
\* labelled frame is returned with no step but the classifier run; contouring
\* always directly follows smoothing, and the mapper runs on nothing else.
C24_StepsInOrder ==
    ExtractCalled =>
        /\ steps # <<>>
        /\ Len(steps) <= Len(StepOrder)
        /\ \A i \in 1..Len(steps) : steps[i] = StepOrder[i]
        /\ (ExtractReturned /\ (LatestFrame.rows = <<>>
                                  \/ "reason" \in LatestFrame.columns)) =>
               steps = <<"classify">>
        /\ pc = "geometry" =>
               \E i \in 2..Len(steps) : steps[i - 1] = "smooth" /\ steps[i] = "contour"

\* C24 witness: a call has run all five steps and returned.
C24_Witness ==
    /\ ExtractReturned
    /\ steps = StepOrder

\* The rows of the loaded file dated d inside the configured bounding box, as
\* the GeoDataFrame holds them.
SubsetOf(d) ==
    LET bbox == config.bounding_box
        Keep(r) == /\ r.date = d
                   /\ bbox.min_lon <= r.longitude /\ r.longitude <= bbox.max_lon
                   /\ bbox.min_lat <= r.latitude /\ r.latitude <= bbox.max_lat
        kept == SelectSeq(csv.rows, Keep)
    IN  [i \in 1..Len(kept) |-> WithGeometry(kept[i])]

\* The frames a date's subset can give, one per answer of the contour finder.
FramesOf(d, subset) ==
    LET outcome == Classify(subset, csv.columns \cup {"geometry"})
    IN  CASE outcome = "empty" -> {NoDataResult(d)}
          [] outcome = "interpolate" ->
               {SnowlineResult(d, contours_to_geometry(cs, config.bounding_box), subset) :
                    cs \in FindContoursResults}
          [] OTHER -> {create_empty_result(d, outcome)}

\* C25: every result run() stores for a date d is fixed by the observations
\* dated d inside the bounding box and by the configuration (and by what the
\* contour finder answers for them): rows of other dates or outside the box
\* have no part in it, and the table the dates are read from stays as built
\* while the dates are processed.
C25_ResultOfDateSubset ==
    /\ \A i \in 1..Len(results) :
          results[i][2] \in FramesOf(results[i][1], SubsetOf(results[i][1]))
    /\ ExtractReturned =>
          LatestFrame \in FramesOf(target_date[1], date_obs)
    /\ gdf # None => gdf[1] = GeoDataFrame(csv, config)

\* C25 witness: results are stored for two dates that both have observations,
\* the file also holding a row outside the bounding box.
C25_Witness ==
    /\ Len(results) >= 2
    /\ \E i, j \in 1..Len(results) :
          /\ i # j
          /\ SubsetOf(results[i][1]) # <<>>
          /\ SubsetOf(results[j][1]) # <<>>
    /\ \E k \in 1..Len(csv.rows) :
          csv.rows[k].longitude > config.bounding_box.max_lon

\* A frame returned from the edge-case checks with the label `reason`.
Labelled(reason) ==
    /\ ExtractReturned
    /\ steps = <<"classify">>
    /\ OneRowLabelled(LatestFrame, reason)

\* C29: the five outcomes of the edge-case checks (zero rows, complete_snow,
\* no_snow, insufficient_data, normal extraction) are mutually exclusive and
\* cover every observation subset; insufficient_data is given only to a date
\* with exactly 2 observations, one with snow and one without.
C29_ClassifierPartition ==
    (ExtractCalled /\ HasSnowPresent(date_obs)) =>
        LET zero_rows == ExtractReturned /\ LatestFrame.rows = <<>>
            normal == Len(steps) > 1 \/ pc \in {"interpolate", "failed"}
            outcomes == <<zero_rows, Labelled("complete_snow"), Labelled("no_snow"),
                          Labelled("insufficient_data"), normal>>
        IN  /\ Cardinality({i \in 1..5 : outcomes[i]}) = 1
            /\ Labelled("insufficient_data") =>
                   /\ Len(date_obs) = 2
                   /\ date_obs[1].snow_present # date_obs[2].snow_present
            /\ zero_rows <=> date_obs = <<>>
            /\ normal <=> (Len(date_obs) >= MinObservations /\ Mixed(date_obs))

\* C29 witness: a run has stored a zero-row frame for one date and, for the
\* next, labelled two mixed observations insufficient_data.
C29_Witness ==
    /\ Labelled("insufficient_data")
    /\ Len(date_obs) = 2
    /\ \E i \in 1..Len(results) : results[i][2].rows = <<>>

\* C28: load() never returns a table that fails validate_snow_data: in any
\* sequence of calls on one loader, a load() that returns hands back a table
\* that passes validation, and a load() of a file that fails it raises.
C28_LoadReturnsValidated ==
    last_call.op.name = "load" =>
        /\ last_call.raised = "no" => validate_snow_data(Deref(held[1], raw_data))
        /\ ~validate_snow_data(csv) => last_call.raised = "DataValidationError"

\* ------------------------------------------------ the interpolation's claims
\* p lies in the convex hull of the observations' points: in a triangle of
\* three of them, or, when they are all on one line, nowhere the
\* interpolation is defined.
InHull(p, observations) ==
    \E i, j, k \in 1..Len(observations) :
        Contains(observations[i].geometry, observations[j].geometry,
                 observations[k].geometry, p)

\* The grid _interpolate_to_grid returned to a direct call.
InterpolateReturned ==
    last_call.op.name = "_interpolate_to_grid" /\ last_call.raised = "no"

\* C21: in the grid interpolated with the linear method, every cell whose
\* location lies outside the convex hull of the observation points holds
\* exactly 0.0, and no cell holds NaN.
C21_OutsideHullIsZero ==
    (InterpolateReturned /\ config.interpolation_method = "linear") =>
        LET grid == create_grid(config.bounding_box)
        IN  \A row \in DOMAIN grid.x : \A col \in DOMAIN grid.x[row] :
                /\ ~held[1][row][col].nan
                /\ ~InHull(<<grid.x[row][col], grid.y[row][col]>>, date_obs) =>
                       held[1][row][col] = Zero

\* C21 witness: a linear interpolation returned a grid with a cell outside
\* the hull, holding 0.0, and a cell inside it holding a value strictly
\* between 0 and 1.
C21_Witness ==
    /\ InterpolateReturned
    /\ config.interpolation_method = "linear"
    /\ LET grid == create_grid(config.bounding_box)
       IN  /\ \E row \in DOMAIN grid.x : \E col \in DOMAIN grid.x[row] :
                 /\ ~InHull(<<grid.x[row][col], grid.y[row][col]>>, date_obs)
                 /\ held[1][row][col] = Zero
           /\ \E row \in DOMAIN grid.x : \E col \in DOMAIN grid.x[row] :
                 /\ InHull(<<grid.x[row][col], grid.y[row][col]>>, date_obs)
                 /\ held[1][row][col].num > 0
                 /\ held[1][row][col].num < held[1][row][col].den

\* -------------------------------------------------------- the maps' claims
\* The number a text of decimal digits stands for.
RECURSIVE ParseNumber(_)
ParseNumber(text) ==
    IF text = <<>> THEN 0
    ELSE 10 * ParseNumber(SubSeq(text, 1, Len(text) - 1))
           + (CHOOSE n \in 0..9 : Digits[n + 1] = text[Len(text)])

\* The number of days from 1 January of `year` to the given date.
RECURSIVE DayOfYear(_, _, _)
DayOfYear(year, month, day) ==
    IF month = 1 THEN day - 1
    ELSE DaysInMonth(year, month - 1) + DayOfYear(year, month - 1, day)

\* The day number of a calendar date of the epoch's year or the next.
DayNumber(year, month, day) ==
    DayOfYear(year, month, day) - DayOfYear(EpochYear, EpochMonth, EpochDay)
      + (IF year = EpochYear THEN 0 ELSE IF IsLeap(EpochYear) THEN 366 ELSE 365)

\* `name` is prefix + YYYY-MM-DD + ".svg" for the date of day number d: the
\* prefix, four digits, a dash, two digits, a dash, two digits, the
\* extension, the digits reading as d's year, month and day.
IsFilenameOf(name, prefix, d) ==
    LET n == Len(prefix)
        IsDigits(text) == \A i \in 1..Len(text) : \E k \in 1..10 : Digits[k] = text[i]
        yyyy == SubSeq(name, n + 1, n + 4)
        mm == SubSeq(name, n + 6, n + 7)
        dd == SubSeq(name, n + 9, n + 10)
    IN  /\ Len(name) = n + 14
        /\ SubSeq(name, 1, n) = prefix
        /\ name[n + 5] = "-" /\ name[n + 8] = "-"
        /\ SubSeq(name, n + 11, n + 14) = <<".", "s", "v", "g">>
        /\ IsDigits(yyyy) /\ IsDigits(mm) /\ IsDigits(dd)
        /\ ParseNumber(mm) \in 1..12
        /\ ParseNumber(dd) \in 1..DaysInMonth(ParseNumber(yyyy), ParseNumber(mm))
        /\ DayNumber(ParseNumber(yyyy), ParseNumber(mm), ParseNumber(dd)) = d

GenerateAllReturned == last_call.op.name = "generate_all" /\ last_call.raised = "no"

\* C26: when generate_all returns, the renderer was called exactly once per
\* entry of the snowlines mapping, in the mapping's order, with the entry's
\* table and date, and the list returned has one path per entry in that
\* order, each the output directory / (filename_prefix + YYYY-MM-DD + ".svg")
\* and the path handed to that render call; so too for the entries with zero
\* rows or an absent geometry; an empty mapping gives an empty list and no
\* render call.
C26_OneRenderPerEntry ==
    GenerateAllReturned =>
        /\ Len(steps) = Len(results)
        /\ Len(held[1]) = Len(results)
        /\ \A i \in 1..Len(results) :
              /\ steps[i].target_date = results[i][1]
              /\ steps[i].snowline = results[i][2]
              /\ steps[i].output_path = held[1][i]
              /\ held[1][i].parent = config.output.directory
              /\ IsFilenameOf(held[1][i].name, config.output.filename_prefix,
                              results[i][1])
        /\ results = <<>> => (held[1] = <<>> /\ steps = <<>>)

\* C26 witness: generate_all returned for a mapping of two entries or more
\* that is not in date order, one entry with zero rows and one with an absent
\* geometry.
C26_Witness ==
    /\ GenerateAllReturned
    /\ Len(results) >= 2
    /\ results[1][1] > results[2][1]
    /\ \E i \in 1..Len(results) : results[i][2].rows = <<>>
    /\ \E i \in 1..Len(results) :
          /\ results[i][2].rows # <<>>
          /\ results[i][2].rows[1].geometry = None

RenderCalled == last_call.op.name = "render"

\* C27: render draws no snowline overlay when the snowline table has zero
\* rows or all of its geometries are absent, yet, when it returns, it has
\* written the output file; and whenever render returns, the value returned
\* is the output_path it was given.
C27_NoOverlayStillWrites ==
    RenderCalled =>
        LET r == steps[1]
            absent == \A i \in 1..Len(r.snowline.rows) :
                          r.snowline.rows[i].geometry = None
        IN  /\ absent => ~r.overlay
            /\ last_call.raised = "no" =>
                  /\ r.saved
                  /\ held = Some(r.output_path)
                  /\ ~absent => r.overlay

\* C27 witness: render returned for a table of two rows, both geometries
\* absent, on the fallback figure: no overlay, the file written.
C27_Witness ==
    /\ RenderCalled
    /\ last_call.raised = "no"
    /\ Len(steps[1].snowline.rows) = 2
    /\ \A i \in 1..2 : steps[1].snowline.rows[i].geometry = None
    /\ steps[1].figure = "fallback"
    /\ ~steps[1].overlay
    /\ steps[1].saved

\* ------------------------------------------------------------ main's claims
\* Maps have been rendered: generate_all has run, `steps` holding its render
\* calls.
RenderingStarted == last_call.op.name = "generate_all"

\* C30: in main, map rendering starts only after extraction has completed for
\* every date of the range; if extraction (or the load before it) raises on
\* any date, no map is rendered for any date, the dates extracted before it
\* included, and the process exits with status 1, never 0.
C30_RenderingAfterExtraction ==
    /\ RenderingStarted =>
          /\ returned # None
          /\ Keys(returned[1]) =
                [i \in 1..(config.end_date - config.start_date + 1) |->
                    config.start_date + (i - 1)]
          /\ \A i \in 1..Len(steps) : steps[i].target_date = returned[1][i][1]
    /\ (error # None /\ returned = None) =>
          /\ ~RenderingStarted
          /\ held = None
          /\ pc \in {"failed", "exit_1"}
    /\ pc = "exit_1" <=> (error # None /\ pc # "failed")
    /\ pc = "exit_0" =>
          (error = None /\ RenderingStarted /\ Len(held[1]) = Len(returned[1]))

\* C30 witness: extraction raised on a later date of the range, an earlier
\* date having been extracted; the process has exited with status 1 and
\* nothing was rendered.
C30_Witness ==
    /\ pc = "exit_1"
    /\ returned = None
    /\ error \in {Some("KeyError"), Some("QhullError")}
    /\ target_date # None
    /\ target_date[1] > config.start_date
    /\ ~RenderingStarted

====
